---- MODULE Spec2Model ----
(***************************************************************************)
(* Starlink dashboard: handover simulation, link budget, rain attenuation, *)
(* weather cache and frame drawing of the terminal, pro and tactical       *)
(* variants (src/docs/app.js, src/unnamed/part_000, src/unnamed/part_001)  *)
(* and the sampling loop of the basic and enhanced variants; init with its *)
(* two loads, the terminal log, and the build script of the data files.    *)
(*                                                                         *)
(* Numbers: elevations are whole degrees, precipitation whole mm/h, all dB *)
(* quantities are integers in milli-dB, time is in milliseconds counted    *)
(* from an arbitrary epoch.  The transcendental sub-expressions of the     *)
(* source (sin, log10, pow) are tabulated at the whole-degree / whole-mm/h *)
(* arguments; everything the source does with them (clamps, sums, caps,    *)
(* comparisons) is computed.                                               *)
(***************************************************************************)
EXTENDS Integers, Sequences, FiniteSets, TLC

(* ------------------------------ bounds -------------------------------- *)

\* largest tleList length loaded by init in SpecHandover and SpecWeather
NumSats == 2

\* largest tleList length loaded by init in SpecFoot
NumFootSats == 4

\* number of clock steps the model lets Date.now() advance
MaxClock == 3

\* largest tleList length of the sampling specification SpecSample
MaxTle == 2100

\* largest tleList length of SpecScan, above the cap of drawFrame
MaxScanTle == 1001

\* updateTerminalLog calls after which SpecLog stops logging
MaxLogCalls == 104

\* largest tleList length loaded by init in SpecInit and SpecDraw
NumInitSats == 2

\* largest number of objects in the input file of the build script
MaxObjects == 3

\* animate3D callbacks pending at once, at most
MaxFrames == 3

\* Math.ceil(tleList.length / 500): the cap of createSatellites3D
MAX_SATS_3D == 500

(* ------------------------- program constants -------------------------- *)

\* 30 * 60 * 1000 ms, the weather cache lifetime
CACHE_MS == 30 * 60 * 1000

\* hysteresis margin of simulateHandover: obs.elevMin - 5
HYSTERESIS == 5

\* initial obs.elevMin and the fallback of the Apply handler (|| 25)
DEFAULT_ELEV_MIN == 25

\* rain attenuation cap, Math.min(attenuation, 20), in milli-dB
RAIN_CAP == 20000

\* Math.min(slantPath / 10, 5): the cap of the path factor, in km
PATH_CAP_KM == 50

\* EIRP + GAIN - noiseFloor = 35 + 33 + 134 dB, in milli-dB
EIRP == 35000
GAIN == 33000
NOISE_FLOOR_NEG == 134000

\* 20 * log10(FREQ) + 92.45 with FREQ = 11.5e9, in milli-dB
FREQ_TERM == 201214
FSPL_CONST == 92450

\* k = 0.0101 * 11.5^2.03 = 1.43727, times 10^4
K_E4 == 14373

\* margin: SNR - 5, in milli-dB
MARGIN_OFFSET == 5000

\* initial obs.lat and the fallback of the Apply handler (|| -27.588), in
\* thousandths of a degree
DEFAULT_LAT == 0 - 27588

\* lines kept by updateTerminalLog: 50 in the terminal variant, 100 in the
\* tactical one
TERMINAL_LINES == 50
TACTICAL_LINES == 100

Variants == {"terminal", "pro", "tactical"}

AllVariants == Variants \cup {"basic", "enhanced"}

NULL == [null |-> TRUE]

Min(a, b) == IF a <= b THEN a ELSE b
Max(a, b) == IF a >= b THEN a ELSE b

(* -------------------- tabulated sub-expressions ----------------------- *)

\* 20 * log10((550 / sin(d deg)) * 1000) in milli-dB, d = 1..90
DistTermTable ==
  <<149970, 143951, 140431, 137936, 136001, 134423, 133089, 131936, 130921, 130014,
    129195, 128450, 127765, 127134, 126547, 126000, 125489, 125008, 124554, 124126,
    123721, 123336, 122970, 122621, 122288, 121970, 121666, 121375, 121096, 120828,
    120570, 120323, 120085, 119856, 119635, 119423, 119218, 119020, 118830, 118646,
    118468, 118297, 118132, 117972, 117818, 117669, 117525, 117386, 117252, 117122,
    116997, 116877, 116760, 116648, 116540, 116436, 116335, 116239, 116146, 116057,
    115971, 115889, 115810, 115734, 115662, 115593, 115527, 115464, 115404, 115348,
    115294, 115243, 115195, 115150, 115108, 115069, 115033, 114999, 114968, 114940,
    114915, 114892, 114872, 114855, 114840, 114828, 114819, 114813, 114809, 114807>>

\* 0.5 / sin(d deg) in milli-dB, d = 1..90 (entries 1..4 are never read:
\* the source clamps the argument to at least 5 degrees)
AtmLossTable ==
  <<5737, 5737, 5737, 5737, 5737, 4783, 4103, 3593, 3196, 2879,
    2620, 2405, 2223, 2067, 1932, 1814, 1710, 1618, 1536, 1462,
    1395, 1335, 1280, 1229, 1183, 1141, 1101, 1065, 1031, 1000,
    971, 944, 918, 894, 872, 851, 831, 812, 795, 778,
    762, 747, 733, 720, 707, 695, 684, 673, 663, 653,
    643, 635, 626, 618, 610, 603, 596, 590, 583, 577,
    572, 566, 561, 556, 552, 547, 543, 539, 536, 532,
    529, 526, 523, 520, 518, 515, 513, 511, 509, 508,
    506, 505, 504, 503, 502, 501, 501, 500, 500, 500>>

\* 550 / sin(d deg) in km, d = 1..90 (entries 1..4 as above)
SlantPathTable ==
  <<6311, 6311, 6311, 6311, 6311, 5262, 4513, 3952, 3516, 3167,
    2882, 2645, 2445, 2273, 2125, 1995, 1881, 1780, 1689, 1608,
    1535, 1468, 1408, 1352, 1301, 1255, 1211, 1172, 1134, 1100,
    1068, 1038, 1010, 984, 959, 936, 914, 893, 874, 856,
    838, 822, 806, 792, 778, 765, 752, 740, 729, 718,
    708, 698, 689, 680, 671, 663, 656, 649, 642, 635,
    629, 623, 617, 612, 607, 602, 597, 593, 589, 585,
    582, 578, 575, 572, 569, 567, 564, 562, 560, 558,
    557, 555, 554, 553, 552, 551, 551, 550, 550, 550>>

\* Math.pow(p, 1.065) times 1000, p = 1..9 mm/h
PowAlphaTable ==
  <<1000, 2092, 3222, 4377, 5551, 6741, 7944, 9158, 10382>>

(* ------------------------------ state --------------------------------- *)

VARIABLES
  variant,            \* which dashboard file is running, or "build"
  phase,              \* "boot" before init, "running" once setInterval is called,
                      \* "failed" if init returned early, "crashed" if it threw
  tleList,            \* [0..n-1 -> [noradId, line1, line2, parses]]
  satRecs,            \* [0..n-1 -> BOOLEAN]: FALSE is a null record
  satState,           \* [0..n-1 -> what propagation yields now]: NULL (no position),
                      \* THROWS, [el] or [el, nan] (a non-finite coordinate)
  obs,                \* [elevMin, lat]; lon is read and defaulted exactly as lat
  map,                \* NULL or [center]: the Leaflet map
  metaResponse,       \* "pending", then "ok" or "error": the load of META_URL
  dataResponse,       \* "pending", then "ok" or "error": the load of DATA_URL
  terminal,           \* NULL (the page has no terminalOutput element) or
                      \* [children]: its lines, each the ordinal of its call
  logCalls,           \* updateTerminalLog calls that found the element
  config,             \* [considerRain, showFootprints, footprintOnlySelected, maxFootprints]
  selectedSatellite,  \* NULL or [noradId]
  isDrawing,
  isGlobeActive,      \* enhanced: the 3D tab is shown
  scene3d,            \* enhanced: 0 (undefined) or the number of scenes initGlobe3D made
  animationFrames,    \* enhanced: animate3D callbacks pending in requestAnimationFrame
  form,               \* NULL or [elevMin, lat]: the form fields as last applied
  loop,               \* NULL or [i, n, step]: a sampling loop that is running
  handoverSimulation,
  currentServingSat,  \* NULL or [index, snr]
  handoverCandidates, \* sequence of [index, snr]
  weatherData,        \* NULL or [precipitation]
  weatherLastFetch,
  now,                \* Date.now()
  layerGroup,         \* [drawn indices -> marker class]
  footprintGroup,     \* indices with a footprint circle
  visibleInfo,        \* [visible, drawn] as displayed
  handoverInfo,       \* the handover panel as updateHandoverDisplay last wrote it
  handoverLog,        \* newest HANDOVER line of the terminal log (console in pro)
  linkArgs,           \* function, arguments and config.considerRain of the last
                      \* direct call of a link function
  linkOut,            \* its result
  refArgs,            \* an earlier direct call, kept for comparison
  refOut,
  argv,               \* build script: the path arguments of the command line
  inputFile,          \* build script: NULL (unreadable or not JSON) or the parsed input
  inputRead,          \* build script: readFileSync was called
  outFile,            \* build script: NULL or the list written to outPath
  metaFile,           \* build script: NULL or the object written to metaPath
  exitStatus          \* build script: NULL while running, then [code |-> status]

vars ==
  <<variant, phase, tleList, satRecs, satState, obs, config, selectedSatellite,
    isDrawing, isGlobeActive, scene3d, animationFrames, form, loop,
    handoverSimulation, currentServingSat, handoverCandidates,
    weatherData, weatherLastFetch, now, layerGroup, footprintGroup, visibleInfo,
    handoverInfo, handoverLog, linkArgs, linkOut, refArgs, refOut,
    map, metaResponse, dataResponse, terminal, logCalls,
    argv, inputFile, inputRead, outFile, metaFile, exitStatus>>

handoverVars == <<currentServingSat, handoverCandidates>>

frameVars == <<layerGroup, footprintGroup, visibleInfo>>

weatherVars == <<weatherData, weatherLastFetch>>

linkVars == <<linkArgs, linkOut, refArgs, refOut>>

loadVars == <<metaResponse, dataResponse>>

logVars == <<terminal, logCalls>>

buildVars == <<argv, inputFile, inputRead, outFile, metaFile, exitStatus>>

globeVars == <<isGlobeActive, scene3d, animationFrames>>

(* --------------------------- environment ------------------------------ *)

\* elevations (degrees) a satellite takes in SpecHandover
ElevLevels == {18, 22, 27, 40}

\* elevations of the coarse scenario SpecFoot
CoarseLevels == {18, 40}

\* values of the elevMin form field; 0 is the falsy input
ElevMinInputs == {0, 25, 30}

\* values of the lat form field, in thousandths of a degree; 0 is the falsy
\* input
LatInputs == {0, 0 - 23550}

\* the field left empty
NoPosition == {0}

\* whole mm/h values Math.random() * 10 takes when the weather is generated
PrecipLevels == {0, 2}

\* one step of the clock, in ms
ClockStep == 15 * 60 * 1000

\* Date.now() when the page loads
StartTime == 4 * ClockStep

SatStates == {NULL} \cup {[el |-> e] : e \in ElevLevels}

\* satellite.propagate or a conversion throws
THROWS == [throws |-> TRUE]

\* a propagation whose coordinate c is NaN
NonFiniteStates == {[el |-> 40, nan |-> c] : c \in {"lat", "lon", "alt"}}

\* whether a coordinate of the state st is not a finite number
NonFinite(st) == "nan" \in DOMAIN st

Length(f) == Cardinality(DOMAIN f)

EmptyList == [i \in {} |-> 0]

(* ------------------------- link computations -------------------------- *)
(* The functions read the global config; a handler that has just assigned  *)
(* config, obs or weatherData calls them with the new values, so the       *)
(* globals a function reads are passed as the record g.                    *)

\* calculateRainAttenuation reading the global weatherData, when there is one,
\* instead of its argument
calculateRainAttenuationGlobal(g, elevation, precipitation) ==
  LET p == IF g.weatherData # NULL THEN g.weatherData.precipitation
           ELSE precipitation
  IN  IF p = 0 \/ (variant # "pro" /\ ~g.config.considerRain) THEN 0
      ELSE Min((((K_E4 * PowAlphaTable[p]) \div 1000)
                  * Min(SlantPathTable[Max(elevation, 5)], PATH_CAP_KM)) \div 100,
               RAIN_CAP)

\* calculateRainAttenuation without the final Math.min(attenuation, 20)
calculateRainAttenuationUncapped(g, elevation, precipitation) ==
  IF precipitation = 0 \/ (variant # "pro" /\ ~g.config.considerRain) THEN 0
  ELSE (((K_E4 * PowAlphaTable[precipitation]) \div 1000)
          * Min(SlantPathTable[Max(elevation, 5)], PATH_CAP_KM)) \div 100

\* calculateRainAttenuation; the pro variant has no config and tests only
\* precipitation === 0
calculateRainAttenuation(g, elevation, precipitation) ==
  IF precipitation = 0 \/ (variant # "pro" /\ ~g.config.considerRain) THEN 0
  ELSE LET slantPath   == SlantPathTable[Max(elevation, 5)]
           attenuation == (((K_E4 * PowAlphaTable[precipitation]) \div 1000)
                             * Min(slantPath, PATH_CAP_KM)) \div 100
       IN  Min(attenuation, RAIN_CAP)

\* appliedRainAtt without the test of config.considerRain
AppliedRainAttAlways(g, rainAttenuation) == rainAttenuation

\* const appliedRainAtt = config.considerRain ? rainAttenuation : 0
\* (the pro variant subtracts rainAttenuation as passed)
AppliedRainAtt(g, rainAttenuation) ==
  IF variant = "pro" THEN rainAttenuation
  ELSE IF g.config.considerRain THEN rainAttenuation ELSE 0

\* the ladder with inclusive comparisons (SNR >= threshold)
AdaptiveModulationInclusive(SNR) ==
  IF SNR >= 25000 THEN [modulation |-> "256-APSK", dataRate |-> 400]
  ELSE IF SNR >= 20000 THEN [modulation |-> "128-APSK", dataRate |-> 350]
  ELSE IF SNR >= 18000 THEN [modulation |-> "64-APSK", dataRate |-> 300]
  ELSE IF SNR >= 15000 THEN [modulation |-> "32-APSK", dataRate |-> 250]
  ELSE IF SNR >= 12000 THEN [modulation |-> "16-APSK", dataRate |-> 200]
  ELSE IF SNR >= 8000 THEN [modulation |-> "8PSK", dataRate |-> 150]
  ELSE [modulation |-> "QPSK", dataRate |-> 50]

\* the if / else-if ladder "Modulacao adaptativa" of the tactical variant
AdaptiveModulation(SNR) ==
  IF SNR > 25000 THEN [modulation |-> "256-APSK", dataRate |-> 400]
  ELSE IF SNR > 20000 THEN [modulation |-> "128-APSK", dataRate |-> 350]
  ELSE IF SNR > 18000 THEN [modulation |-> "64-APSK", dataRate |-> 300]
  ELSE IF SNR > 15000 THEN [modulation |-> "32-APSK", dataRate |-> 250]
  ELSE IF SNR > 12000 THEN [modulation |-> "16-APSK", dataRate |-> 200]
  ELSE IF SNR > 8000 THEN [modulation |-> "8PSK", dataRate |-> 150]
  ELSE [modulation |-> "QPSK", dataRate |-> 50]

calculateLinkBudget(g, elevationDeg, rainAttenuation) ==
  LET FSPL            == DistTermTable[Max(elevationDeg, 1)] + FREQ_TERM + FSPL_CONST
      atmosphericLoss == AtmLossTable[Max(elevationDeg, 5)]
      appliedRainAtt  == AppliedRainAtt(g, rainAttenuation)
      rxPower         == EIRP - FSPL - atmosphericLoss - appliedRainAtt + GAIN
      SNR             == rxPower + NOISE_FLOOR_NEG
  IN  IF variant = "tactical"
      THEN [SNR |-> SNR, rxPower |-> rxPower, FSPL |-> FSPL,
            rainAttenuation |-> appliedRainAtt,
            modulation |-> AdaptiveModulation(SNR).modulation,
            dataRate |-> AdaptiveModulation(SNR).dataRate,
            margin |-> SNR - MARGIN_OFFSET]
      ELSE [SNR |-> SNR, rxPower |-> rxPower, FSPL |-> FSPL,
            rainAttenuation |-> appliedRainAtt]

\* rainAtt as drawFrame and the terminal simulateHandover compute it:
\*   config.considerRain && weatherData ? calculateRainAttenuation(..) : 0
\* (pro drawFrame: weatherData ? calculateRainAttenuation(..) : 0)
FrameRainAtt(g, el) ==
  IF (variant = "pro" \/ g.config.considerRain) /\ g.weatherData # NULL
  THEN calculateRainAttenuation(g, el, g.weatherData.precipitation)
  ELSE 0

\* rainAtt of simulateHandover; pro passes weatherData?.precipitation || 0
HandoverRainAtt(g, el) ==
  IF variant = "pro"
  THEN calculateRainAttenuation(g, el,
         IF g.weatherData # NULL THEN g.weatherData.precipitation ELSE 0)
  ELSE FrameRainAtt(g, el)

(* ---------------------------- satellites ------------------------------ *)

\* the globals as a record
Globals ==
  [tleList |-> tleList, satRecs |-> satRecs, satState |-> satState, obs |-> obs,
   isDrawing |-> isDrawing,
   config |-> config, selectedSatellite |-> selectedSatellite,
   currentServingSat |-> currentServingSat,
   handoverCandidates |-> handoverCandidates, weatherData |-> weatherData]

\* a line of a TLE entry is missing or empty when FALSE; parses is FALSE when
\* satellite.twoline2satrec throws on the two lines
TleEntry(id, l1, l2, ok) ==
  [noradId |-> id, line1 |-> l1, line2 |-> l2, parses |-> ok]

\* the ways an entry makes no record: a line missing, or lines the parser
\* rejects
BadShapes ==
  {[line1 |-> FALSE, line2 |-> TRUE,  parses |-> TRUE],
   [line1 |-> TRUE,  line2 |-> FALSE, parses |-> TRUE],
   [line1 |-> FALSE, line2 |-> FALSE, parses |-> TRUE],
   [line1 |-> TRUE,  line2 |-> TRUE,  parses |-> FALSE]}

\* makeRec without the test of line2
makeRecLine1Only(t) == t.line1 /\ t.parses

\* makeRec(t) (the arrow function of satRecs = tleList.map(..) in the terminal,
\* pro and tactical variants): null, here FALSE, when a line is missing or the
\* parser throws
makeRec(t) ==
  IF ~t.line1 \/ ~t.line2 THEN FALSE
  ELSE t.parses

\* the records in the order of their parsing, each one place early
RecordsShifted(list) ==
  [i \in DOMAIN list |-> makeRec(list[(i + 1) % Length(list)])]

\* satRecs = tleList.map(makeRec): one record, or null, per entry of tleList,
\* at the index of the entry
Records(list) == [i \in DOMAIN list |-> makeRec(list[i])]

\* getSatState without the isFinite validation, as in the other variants
getSatStateUnvalidated(g, i) ==
  IF ~g.satRecs[i] THEN NULL
  ELSE LET pv == g.satState[i]
       IN  IF pv = THROWS THEN NULL ELSE pv

\* getSatState(satRecs[i]): null for a null record, a failed propagation or an
\* exception; the basic variant also returns null when lat, lon or alt is not
\* finite, the other variants return such a state
getSatState(g, i) ==
  IF ~g.satRecs[i] THEN NULL
  ELSE LET pv == g.satState[i]
       IN  IF pv = THROWS THEN NULL
           ELSE IF pv = NULL THEN NULL
           ELSE IF variant = "basic" /\ NonFinite(pv) THEN NULL
           ELSE pv

(* ----------------------------- handover ------------------------------- *)

\* the scan visiting only the indices drawFrame samples (multiples of
\* ceil(n / 1000))
ScanBodySampled(g, i, visible) ==
  IF i % ((Length(g.tleList) + 999) \div 1000) # 0 \/ ~g.satRecs[i] THEN visible
  ELSE LET st == g.satState[i]
       IN  IF st = NULL \/ st.el < g.obs.elevMin THEN visible
           ELSE Append(visible,
                  [index |-> i,
                   snr |-> calculateLinkBudget(g, st.el, HandoverRainAtt(g, st.el)).SNR])

\* one iteration of the scan loop of simulateHandover
ScanBody(g, i, visible) ==
  IF ~g.satRecs[i] THEN visible
  ELSE LET st == getSatState(g, i)
       IN  IF st = NULL \/ st.el < g.obs.elevMin THEN visible
           ELSE Append(visible,
                  [index |-> i,
                   snr |-> calculateLinkBudget(g, st.el, HandoverRainAtt(g, st.el)).SNR])

\* for (let i = 0; i < tleList.length; i++): iterations first..last, in order.
\* The range is halved, and the first half is evaluated (its length is read)
\* before the second half starts, so that the evaluation stays shallow.
RECURSIVE ScanVisible(_, _, _, _)
ScanVisible(g, first, last, visible) ==
  IF first > last THEN visible
  ELSE IF first = last THEN ScanBody(g, first, visible)
  ELSE LET mid       == (first + last) \div 2
           firstHalf == ScanVisible(g, first, mid, visible)
       IN  IF Len(firstHalf) >= Len(visible)
           THEN ScanVisible(g, mid + 1, last, firstHalf)
           ELSE visible

\* InsertBySnr with the comparison reversed: (a, b) => a.snr - b.snr
InsertBySnrAscending(sorted, e) ==
  LET k == Cardinality({j \in 1..Len(sorted) : sorted[j].snr <= e.snr})
  IN  SubSeq(sorted, 1, k) \o <<e>> \o SubSeq(sorted, k + 1, Len(sorted))

\* one insertion of the stable sort: e goes after every entry with snr >= e.snr
InsertBySnr(sorted, e) ==
  LET k == Cardinality({j \in 1..Len(sorted) : sorted[j].snr >= e.snr})
  IN  SubSeq(sorted, 1, k) \o <<e>> \o SubSeq(sorted, k + 1, Len(sorted))

\* the sort leaving the list in the order of the scan
SortBySnrKeepOrder(list) == list

\* visible.sort((a, b) => b.snr - a.snr): stable, descending snr
RECURSIVE SortBySnrDesc(_)
SortBySnrDesc(list) ==
  IF list = <<>> THEN <<>>
  ELSE InsertBySnr(SortBySnrDesc(SubSeq(list, 1, Len(list) - 1)), list[Len(list)])

\* Degraded without the margin: currentState.el < obs.elevMin
DegradedNoMargin(g, currentState) ==
  currentState = NULL \/ currentState.el < g.obs.elevMin

\* the serving satellite is dropped when its state is null or its elevation
\* is below obs.elevMin - 5
Degraded(g, currentState) ==
  currentState = NULL \/ currentState.el < g.obs.elevMin - HYSTERESIS

\* the satellite a handover switches to, taken from the end of the list
NewServingLast(g) == g.handoverCandidates[Len(g.handoverCandidates)]

\* the satellite a handover switches to
NewServing(g) == g.handoverCandidates[1]

\* simulateHandover of the terminal and pro variants: the new
\* currentServingSat, handoverCandidates and the last line it logs ("" if none)
SimulateHandoverFull(g) ==
  IF g.currentServingSat = NULL
  THEN LET visible == SortBySnrDesc(ScanVisible(g, 0, Length(g.tleList) - 1, <<>>))
       IN  IF Len(visible) > 0
           THEN [currentServingSat |-> visible[1],
                 handoverCandidates |-> SubSeq(visible, 2, Min(4, Len(visible))),
                 log |-> "HANDOVER serving"]
           ELSE [currentServingSat |-> NULL,
                 handoverCandidates |-> g.handoverCandidates, log |-> ""]
  ELSE LET currentState == getSatState(g, g.currentServingSat.index)
       IN  IF Degraded(g, currentState)
           THEN IF Len(g.handoverCandidates) > 0
                THEN [currentServingSat |-> NewServing(g),
                      handoverCandidates |-> Tail(g.handoverCandidates),
                      log |-> "HANDOVER executed"]
                ELSE [currentServingSat |-> NULL,
                      handoverCandidates |-> g.handoverCandidates,
                      log |-> IF variant = "pro" THEN "HANDOVER needed"
                              ELSE "HANDOVER lost"]
           ELSE [currentServingSat |-> g.currentServingSat,
                 handoverCandidates |-> g.handoverCandidates, log |-> ""]

\* the tactical simulateHandover is a stub that only refreshes the display
simulateHandover(g) ==
  IF variant = "tactical"
  THEN [currentServingSat |-> g.currentServingSat,
        handoverCandidates |-> g.handoverCandidates, log |-> ""]
  ELSE SimulateHandoverFull(g)

(* ------------------------------ drawing ------------------------------- *)

\* const MAX_DRAW = 1000 (MAX_SATS in the basic variant), 800 in the enhanced one
MAX_DRAW == IF variant = "enhanced" THEN 800 ELSE 1000

\* Math.ceil(a / b) for a >= 0, b > 0
Ceil(a, b) == (a + b - 1) \div b

\* step with Math.floor in place of Math.ceil (at least 1)
StepFloor(g) == Max(1, Length(g.tleList) \div MAX_DRAW)

\* const step = Math.ceil(tleList.length / MAX_DRAW)
Step(g) == Ceil(Length(g.tleList), MAX_DRAW)

isVisible(g, st) == st.el >= g.obs.elevMin

isServing(g, i) == g.currentServingSat # NULL /\ g.currentServingSat.index = i

isCandidate(g, i) ==
  \E k \in 1..Len(g.handoverCandidates) : g.handoverCandidates[k].index = i

isSelected(g, i) ==
  g.selectedSatellite # NULL /\ g.selectedSatellite.noradId = g.tleList[i].noradId

\* the colour chain testing isVisible before isCandidate
MarkerClassVisibleFirst(g, i, st) ==
  IF isServing(g, i) THEN "serving"
  ELSE IF variant = "tactical" /\ isSelected(g, i) THEN "selected"
  ELSE IF isVisible(g, st) THEN "visible"
  ELSE IF isCandidate(g, i) THEN "candidate"
  ELSE IF variant = "tactical" THEN "inactive" ELSE "notVisible"

\* the if / else-if chain that picks colour and radius of a marker
MarkerClass(g, i, st) ==
  CASE variant \in {"terminal", "pro"} ->
         IF isServing(g, i) THEN "serving"
         ELSE IF isCandidate(g, i) THEN "candidate"
         ELSE IF isVisible(g, st) THEN "visible"
         ELSE "notVisible"
    [] variant = "tactical" ->
         IF isServing(g, i) THEN "serving"
         ELSE IF isSelected(g, i) THEN "selected"
         ELSE IF isCandidate(g, i) THEN "candidate"
         ELSE IF isVisible(g, st) THEN "visible"
         ELSE "inactive"
    [] variant = "enhanced" ->
         IF isSelected(g, i) THEN "selected"
         ELSE IF isVisible(g, st) THEN "visible"
         ELSE "notVisible"
    [] OTHER ->
         IF isVisible(g, st) THEN "visible" ELSE "notVisible"

\* the counter "visible" after the iteration for index i
VisibleAfter(g, i, st, visible) ==
  CASE variant \in {"terminal", "pro", "tactical"} ->
         IF MarkerClass(g, i, st) = "visible" THEN visible + 1 ELSE visible
    [] variant = "enhanced" ->
         IF isVisible(g, st) /\ visible < 5 THEN visible + 1 ELSE visible
    [] OTHER ->
         IF isVisible(g, st) THEN visible + 1 ELSE visible

\* whether the iteration for index i adds a footprint; before and after are
\* the counter "visible" at the start of the iteration and at the footprint test
DrawsFootprint(g, i, st, before, after) ==
  CASE variant = "terminal" ->
         g.config.showFootprints /\ isVisible(g, st)
           /\ after <= g.config.maxFootprints
    [] variant = "pro" ->
         isVisible(g, st) /\ after <= 3
    [] variant = "tactical" ->
         g.config.showFootprints
           /\ IF g.config.footprintOnlySelected THEN isSelected(g, i)
              ELSE isVisible(g, st) /\ after <= g.config.maxFootprints
    [] variant = "enhanced" ->
         isVisible(g, st) /\ before < 5
    [] OTHER ->
         isVisible(g, st) /\ after <= 10

\* L.circleMarker([st.lat, st.lon], ..) throws "Invalid LatLng object" when
\* a coordinate is NaN
MarkerThrows(st) == NonFinite(st) /\ st.nan \in {"lat", "lon"}

\* L.circle with a NaN radius throws (L.polygon with NaN points in the enhanced
\* variant); the radius is computed from st.alt
FootprintThrows(st) == NonFinite(st)

\* one iteration of the loop of drawFrame; an exception leaves the loop and
\* the function, so the iterations after it do nothing
DrawBody(g, i, acc) ==
  IF acc.threw \/ ~g.satRecs[i] THEN acc
  ELSE LET st == getSatState(g, i)
       IN  IF st = NULL THEN acc
           ELSE IF MarkerThrows(st) THEN [acc EXCEPT !.threw = TRUE]
           ELSE LET v == VisibleAfter(g, i, st, acc.visible)
                    footprint == DrawsFootprint(g, i, st, acc.visible, v)
                IN  [visible |-> v,
                     drawn |-> acc.drawn + 1,
                     layerGroup |-> Append(acc.layerGroup,
                        [index |-> i, cls |-> MarkerClass(g, i, st), el |-> st.el]),
                     footprintGroup |->
                        IF footprint /\ ~FootprintThrows(st)
                        THEN Append(acc.footprintGroup, i)
                        ELSE acc.footprintGroup,
                     threw |-> footprint /\ FootprintThrows(st)]

\* the number of iterations of for (let i = 0; i < n; i += step)
Iterations(n, step) == IF n = 0 THEN 0 ELSE Ceil(n, step)

\* iterations first..last of the loop (iteration k has i = k * step), in order.
\* The range is halved, and the first half is evaluated (its counter is read)
\* before the second half starts, so that the evaluation stays shallow.
RECURSIVE DrawLoop(_, _, _, _, _)
DrawLoop(g, first, last, step, acc) ==
  IF first > last THEN acc
  ELSE IF first = last THEN DrawBody(g, first * step, acc)
  ELSE LET mid       == (first + last) \div 2
           firstHalf == DrawLoop(g, first, mid, step, acc)
       IN  IF firstHalf.drawn >= acc.drawn
           THEN DrawLoop(g, mid + 1, last, step, firstHalf)
           ELSE acc

\* drawFrame, entered with isDrawing false: isDrawing = true, both layer groups
\* are cleared and refilled, the counters are displayed and isDrawing = false.
\* There is no try / finally: when an iteration throws, the groups keep what
\* was drawn before it, the display is not updated and the last statement,
\* isDrawing = false, is not reached.
drawFrame(g) ==
  LET acc == DrawLoop(g, 0, Iterations(Length(g.tleList), Step(g)) - 1, Step(g),
               [visible |-> 0, drawn |-> 0, layerGroup |-> <<>>, footprintGroup |-> <<>>,
                threw |-> FALSE])
  IN  [layerGroup |-> acc.layerGroup, footprintGroup |-> acc.footprintGroup,
       visibleInfo |-> [visible |-> acc.visible, drawn |-> acc.drawn],
       threw |-> acc.threw]

(* ------------------------------ weather ------------------------------- *)

\* the cache test with the lifetime in seconds: (now - last) < 30 * 60
WeatherCachedSeconds(g, last, t) == g.weatherData # NULL /\ (t - last) < 30 * 60

\* whether fetchWeatherData called at time t returns the cached object
WeatherCached(g, last, t) == g.weatherData # NULL /\ (t - last) < CACHE_MS

\* the values Math.random() * 10 can take in a call that reads it
RandomPrecip(g, last, t) == IF WeatherCached(g, last, t) THEN {0} ELSE PrecipLevels

\* fetchWeatherData called at time t, Math.random() * 10 yielding p: the new
\* weatherData and weatherLastFetch
fetchWeatherData(g, last, t, p) ==
  IF WeatherCached(g, last, t)
  THEN [weatherData |-> g.weatherData, weatherLastFetch |-> last]
  ELSE [weatherData |-> [precipitation |-> p], weatherLastFetch |-> t]

(* ---------------------------- terminal log --------------------------- *)

\* the limit of the while loop of updateTerminalLog
MaxLines == IF variant = "tactical" THEN TACTICAL_LINES ELSE TERMINAL_LINES

\* the while loop removing terminal.lastChild instead of terminal.firstChild
RECURSIVE TrimNewest(_, _)
TrimNewest(lines, max) ==
  IF Len(lines) > max THEN TrimNewest(SubSeq(lines, 1, Len(lines) - 1), max)
  ELSE lines

\* while (terminal.children.length > max) terminal.removeChild(terminal.firstChild)
RECURSIVE TrimOldest(_, _)
TrimOldest(lines, max) ==
  IF Len(lines) > max THEN TrimOldest(Tail(lines), max) ELSE lines

\* updateTerminalLog(type, message), the call being the n-th one: nothing when
\* the page has no terminalOutput element, else the line is appended and the
\* terminal trimmed
updateTerminalLog(term, n) ==
  IF term = NULL THEN NULL
  ELSE [children |-> TrimOldest(Append(term.children, n), MaxLines)]

\* k successive calls of updateTerminalLog, the first being call n + 1
RECURSIVE LogLines(_, _, _)
LogLines(term, n, k) ==
  IF k = 0 THEN term
  ELSE LogLines(updateTerminalLog(term, n + 1), n + 1, k - 1)

\* a handler that calls updateTerminalLog k times (the pro, basic and enhanced
\* variants write to the console only)
Logs(k) ==
  IF terminal = NULL \/ variant \notin {"terminal", "tactical"}
  THEN UNCHANGED logVars
  ELSE /\ logCalls + k <= MaxLogCalls
       /\ terminal' = LogLines(terminal, logCalls, k)
       /\ logCalls' = logCalls + k

\* lines fetchWeatherData logs at time t: none from the cache, else "Fetching
\* atmospheric data..." and, in the terminal variant, "Precipitation: .."
WeatherLogLines(g, last, t) ==
  IF WeatherCached(g, last, t) THEN 0
  ELSE IF variant = "terminal" THEN 2 ELSE 1

\* lines simulateHandover logs for the outcome log: "Serving: ..", or "Signal
\* degradation detected" followed by the handover or the loss
HandoverLogLines(log) ==
  CASE log = "" -> 0
    [] log = "HANDOVER serving" -> 1
    [] OTHER -> 2

(* --------------------------- handover panel --------------------------- *)

\* updateHandoverDisplay: the serving block is written only when the serving
\* satellite has a state (terminal, pro); tactical shows name and SNR
updateHandoverDisplay(g, serving, candidates) ==
  IF variant = "tactical"
  THEN [serving |-> serving, candidates |-> <<>>]
  ELSE [serving |->
          IF serving # NULL /\ getSatState(g, serving.index) # NULL
          THEN [index |-> serving.index, snr |-> serving.snr,
                el |-> getSatState(g, serving.index).el]
          ELSE NULL,
        candidates |-> candidates]

(* ---------------------------- build script ---------------------------- *)
(* build_starlink_json.js (the last script of src/docs/app.js).  A JSON     *)
(* string is [str |-> <<characters>>], a JSON number [num |-> n], a missing *)
(* member NULL.                                                            *)

NaN == [nan |-> TRUE]

Str(chars) == [str |-> chars]

Num(n) == [num |-> n]

\* String.prototype.trim: the characters from the first to the last one that
\* is not white space
trim(s) ==
  LET text == {k \in 1..Len(s) : s[k] # " "}
  IN  IF text = {} THEN <<>>
      ELSE SubSeq(s, CHOOSE k \in text : \A j \in text : k <= j,
                     CHOOSE k \in text : \A j \in text : k >= j)

\* Number(v): NaN for undefined and for a string that is not a numeral, 0 for
\* a blank string, the value of a decimal numeral, a number as it is
Number(v) ==
  IF v = NULL THEN NaN
  ELSE IF "num" \in DOMAIN v THEN v
  ELSE LET t == trim(v.str)
           digits == <<"0", "1", "2", "3", "4", "5", "6", "7", "8", "9">>
           IsDigit(c) == \E d \in 1..10 : digits[d] = c
           DigitValue(c) == (CHOOSE d \in 1..10 : digits[d] = c) - 1
           value[k \in 0..Len(t)] ==
             IF k = 0 THEN 0 ELSE 10 * value[k - 1] + DigitValue(t[k])
       IN  IF t = <<>> THEN Num(0)
           ELSE IF \A k \in 1..Len(t) : IsDigit(t[k]) THEN Num(value[Len(t)])
           ELSE NaN

\* st?.TLE_LINE1?.trim(): undefined for a missing line, a TypeError (THROWS)
\* for a line that is not a string
TrimmedLine(v) ==
  IF v = NULL THEN NULL
  ELSE IF "str" \in DOMAIN v THEN Str(trim(v.str))
  ELSE THROWS

\* !line: the line is undefined or the empty string
Falsy(line) == line = NULL \/ line = Str(<<>>)

\* a.noradId || 0
NoradKey(noradId) == IF noradId = NaN THEN 0 ELSE noradId.num

\* st?.OBJECT_NAME || `STARLINK-${noradId || ""}`.trim()
RecordName(st, noradId) ==
  IF st.OBJECT_NAME # NULL /\ st.OBJECT_NAME # Str(<<>>)
  THEN st.OBJECT_NAME
  ELSE [starlink |-> NoradKey(noradId)]

\* the callback of raw.map with a test of line1 only
BuildRecordLine1Only(obj) ==
  LET st    == IF obj = NULL THEN NULL ELSE obj.spaceTrack
      line1 == IF st = NULL THEN NULL ELSE TrimmedLine(st.TLE_LINE1)
      line2 == IF st = NULL THEN NULL ELSE TrimmedLine(st.TLE_LINE2)
  IN  IF line1 = THROWS THEN THROWS
      ELSE IF line2 = THROWS THEN THROWS
      ELSE IF Falsy(line1) THEN NULL
      ELSE LET noradId == Number(st.NORAD_CAT_ID)
           IN  [name |-> RecordName(st, noradId), noradId |-> noradId,
                line1 |-> line1, line2 |-> line2]

\* the callback of raw.map: null when a line is missing or blank after the
\* trim, else the record
BuildRecord(obj) ==
  LET st    == IF obj = NULL THEN NULL ELSE obj.spaceTrack
      line1 == IF st = NULL THEN NULL ELSE TrimmedLine(st.TLE_LINE1)
      line2 == IF st = NULL THEN NULL ELSE TrimmedLine(st.TLE_LINE2)
  IN  IF line1 = THROWS THEN THROWS
      ELSE IF line2 = THROWS THEN THROWS
      ELSE IF Falsy(line1) \/ Falsy(line2) THEN NULL
      ELSE LET noradId == Number(st.NORAD_CAT_ID)
           IN  [name |-> RecordName(st, noradId), noradId |-> noradId,
                line1 |-> line1, line2 |-> line2]

\* the insertion under the comparator reversed: (b.noradId || 0) - (a.noradId || 0)
InsertByNoradDescending(sorted, e) ==
  LET k == Cardinality({j \in 1..Len(sorted) :
                          NoradKey(sorted[j].noradId) >= NoradKey(e.noradId)})
  IN  SubSeq(sorted, 1, k) \o <<e>> \o SubSeq(sorted, k + 1, Len(sorted))

\* one insertion of the stable sort under (a.noradId || 0) - (b.noradId || 0):
\* e goes after every record whose key is not larger
InsertByNorad(sorted, e) ==
  LET k == Cardinality({j \in 1..Len(sorted) :
                          NoradKey(sorted[j].noradId) <= NoradKey(e.noradId)})
  IN  SubSeq(sorted, 1, k) \o <<e>> \o SubSeq(sorted, k + 1, Len(sorted))

\* raw.map(..).filter(Boolean).sort(..) over the first n objects
RECURSIVE BuildList(_, _)
BuildList(raw, n) ==
  IF n = 0 THEN <<>>
  ELSE LET rec == BuildRecord(raw[n])
           rest == BuildList(raw, n - 1)
       IN  IF rec = NULL THEN rest ELSE InsertByNorad(rest, rec)

\* build(inputPath, outPath, metaPath): what is written, or threw when
\* JSON.parse, raw.map or the callback throws before anything is written
build(input) ==
  IF input = NULL \/ "json" \notin DOMAIN input
  THEN [threw |-> TRUE]
  ELSE IF \E k \in 1..Len(input.json) : BuildRecord(input.json[k]) = THROWS
  THEN [threw |-> TRUE]
  ELSE LET list == BuildList(input.json, Len(input.json))
       IN  [threw |-> FALSE, list |-> list,
            meta |-> [count |-> Len(list), source |-> "SpaceX API v4 (starlink)"]]

\* an object of the input array with a spaceTrack member
SpaceTrack(l1, l2, id, name) ==
  [spaceTrack |-> [TLE_LINE1 |-> l1, TLE_LINE2 |-> l2, NORAD_CAT_ID |-> id,
                   OBJECT_NAME |-> name]]

\* the objects the input array is made of: null, no spaceTrack, a line
\* missing, blank or empty, padded lines, an id that is a number, a numeral,
\* missing or not a numeral, and a line that is not a string
InputObjects ==
  { NULL,
    [spaceTrack |-> NULL],
    SpaceTrack(NULL, Str(<<"2">>), Num(7), Str(<<"A">>)),
    SpaceTrack(Str(<<" ", "1">>), Str(<<" ", " ">>), Num(5), Str(<<"B">>)),
    SpaceTrack(Str(<<>>), Str(<<"2">>), Num(5), NULL),
    SpaceTrack(Str(<<" ", "1", " ">>), Str(<<"2", " ">>), Num(7), Str(<<"C">>)),
    SpaceTrack(Str(<<"1">>), Str(<<"2">>), Str(<<"1", "2">>), NULL),
    SpaceTrack(Str(<<"1">>), Str(<<"2">>), NULL, NULL),
    SpaceTrack(Str(<<"1">>), Str(<<"2">>), Str(<<"x">>), Str(<<"D">>)),
    SpaceTrack(Str(<<"1">>), Str(<<"2">>), Num(2), Str(<<>>)),
    SpaceTrack(Num(5), Str(<<"2">>), Num(9), NULL) }

\* the input file: unreadable or not JSON (NULL), JSON that is not an array,
\* or an array of up to MaxObjects objects
InputFiles ==
  {NULL, [object |-> TRUE]}
    \cup {[json |-> a] : a \in UNION {[1..n -> InputObjects] : n \in 0..MaxObjects}}

\* the command lines: process.argv after the node and script paths
ArgLists ==
  { <<>>,
    <<"starlink_raw.json">>,
    <<"starlink_raw.json", "starlink.json">>,
    <<"starlink_raw.json", "", "meta.json">>,
    <<"starlink_raw.json", "starlink.json", "meta.json">> }

\* the status the process ended with
Exit(code) == [code |-> code]

\* if (!inPath || !outPath || !metaPath): an argument is undefined or empty
UsageError ==
  LET MissingArg(k) == IF k > Len(argv) THEN TRUE ELSE argv[k] = ""
  IN  {k \in 1..3 : MissingArg(k)} # {}


(* ------------------------------ worlds -------------------------------- *)

NoRec == [norec |-> TRUE]

\* what the two fetches of init deliver and how the satellites stand at the
\* first frame: n entries, entry i being one of S: an entry without line1
\* (NoRec), a failing propagation (NULL) or a state; the metadata load succeeds
WorldsOfLen(n, S) ==
  { [tleList  |-> [i \in 0..(n - 1) |-> TleEntry(i + 1, c[i] # NoRec, TRUE, TRUE)],
     satState |-> [i \in 0..(n - 1) |-> IF c[i] = NoRec THEN NULL ELSE c[i]],
     meta     |-> "ok"]
    : c \in [0..(n - 1) -> S] }

FineWorlds == UNION {WorldsOfLen(n, SatStates \cup {NoRec}) : n \in 0..NumSats}

CoarseStates == {[el |-> e] : e \in CoarseLevels}

CoarseWorlds ==
  UNION {WorldsOfLen(n, CoarseStates \cup {NoRec}) : n \in 0..NumFootSats}

EmptyWorlds == WorldsOfLen(0, {})

\* the worlds W with the metadata load failing as well
WithMetaError(W) == W \cup {[w EXCEPT !.meta = "error"] : w \in W}

\* states of SpecInit: visible, below the horizon, no position
InitStates == {[el |-> 40], [el |-> 18], NULL}

\* worlds of SpecInit: every entry is complete, with one of InitStates, or has
\* one of BadShapes; both outcomes of the metadata load
InitWorlds ==
  WithMetaError(
    UNION { { [tleList  |-> [i \in 0..(n - 1) |->
                               IF c[i] \in BadShapes
                               THEN TleEntry(i + 1, c[i].line1, c[i].line2, c[i].parses)
                               ELSE TleEntry(i + 1, TRUE, TRUE, TRUE)],
               satState |-> [i \in 0..(n - 1) |->
                               IF c[i] \in BadShapes THEN NULL ELSE c[i]],
               meta     |-> "ok"]
              : c \in [0..(n - 1) -> InitStates \cup BadShapes] }
            : n \in 0..NumInitSats })

\* states of SpecDraw: every outcome of a propagation
DrawStates == {[el |-> 40], NULL, THROWS} \cup NonFiniteStates

DrawWorlds == UNION {WorldsOfLen(n, DrawStates) : n \in 0..NumInitSats}

\* tleList lengths of SpecSample, around the multiples of both caps
SampleLengths == {0, 1, 799, 800, 801, 1000, 1001, 1601, 2000, 2001, MaxTle}

\* what entry i of a sampled constellation is under pattern k: all visible,
\* none visible, or a mix of null records, failed propagations and both
SampleEntry(k, i) ==
  CASE k = 1 -> [el |-> 40]
    [] k = 2 -> [el |-> 18]
    [] OTHER -> CASE i % 4 = 0 -> [el |-> 40]
                  [] i % 4 = 1 -> NoRec
                  [] i % 4 = 2 -> NULL
                  [] OTHER     -> [el |-> 18]

\* tleList lengths of SpecScan
ScanLengths == {2, MaxScanTle}

\* entry i of a constellation of SpecScan under pattern k: the satellites at
\* indices 0..4 are where the pattern puts them (all five visible in pattern
\* 6), of the others a few are below the horizon of the observer or without a
\* state, the rest without a record
ScanEntry(k, i) ==
  CASE i = 0 -> IF k \in {1, 5, 6} THEN [el |-> 27] ELSE [el |-> 18]
    [] i = 1 -> CASE k \in {1, 3, 6} -> [el |-> 40]
                  [] k = 4          -> [el |-> 22]
                  [] k = 5          -> NULL
                  [] OTHER          -> [el |-> 18]
    [] i = 2 -> IF k \in {3, 6} THEN [el |-> 27] ELSE [el |-> 18]
    [] i \in {3, 4} -> IF k = 6 THEN [el |-> 40] ELSE [el |-> 18]
    [] OTHER -> CASE i % 100 = 50 -> [el |-> 18]
                  [] i % 100 = 51 -> NULL
                  [] OTHER        -> NoRec

\* entry i under pattern k of the scenario sc
PatternEntry(sc, k, i) ==
  IF sc = "sample" THEN SampleEntry(k, i) ELSE ScanEntry(k, i)

\* the worlds of lengths L in the patterns 1..K of the scenario sc
PatternWorlds(sc, K, L) ==
  { [tleList  |-> [i \in 0..(n - 1) |->
                     TleEntry(i + 1, PatternEntry(sc, k, i) # NoRec, TRUE, TRUE)],
     satState |-> [i \in 0..(n - 1) |->
                     IF PatternEntry(sc, k, i) = NoRec THEN NULL
                     ELSE PatternEntry(sc, k, i)],
     meta     |-> "ok"]
    : n \in L, k \in 1..K }

SampleWorlds == PatternWorlds("sample", 3, SampleLengths)

\* tleList lengths of SpecLoop: none, one, and around the caps of the loops
LoopLengths == {0, 1, 500, 501, 801, 1001}

ScanWorlds == PatternWorlds("scan", 6, ScanLengths)

\* satellite states at the next interval tick: at most one satellite with a
\* record has moved to another state of S since the previous tick (the handlers
\* of clicks run between two ticks and see the states of the last tick)
EnvMove(S) ==
  {satState} \cup
  {[satState EXCEPT ![i] = s] : i \in {j \in DOMAIN satState : satRecs[j]}, s \in S}

\* the whole constellation is in one of the patterns 1..K of the scenario sc at
\* the next tick
PatternMove(sc, K) ==
  { [i \in DOMAIN satState |->
       IF ~satRecs[i] \/ PatternEntry(sc, k, i) = NoRec THEN satState[i]
       ELSE PatternEntry(sc, k, i)] : k \in 1..K }

(* ------------------------------ actions ------------------------------- *)

InitialConfig ==
  [considerRain |-> TRUE, showFootprints |-> TRUE, footprintOnlySelected |-> FALSE,
   maxFootprints |-> 5]

\* the page as loaded, before init
InitPage(V) ==
  /\ variant \in V
  /\ phase = "boot"
  /\ tleList = EmptyList
  /\ satRecs = EmptyList
  /\ satState = EmptyList
  /\ obs = [elevMin |-> DEFAULT_ELEV_MIN, lat |-> DEFAULT_LAT]
  /\ config = InitialConfig
  /\ selectedSatellite = NULL
  /\ isDrawing = FALSE
  /\ isGlobeActive = FALSE
  /\ scene3d = 0
  /\ animationFrames = 0
  /\ form = NULL
  /\ loop = NULL
  /\ handoverSimulation = FALSE
  /\ currentServingSat = NULL
  /\ handoverCandidates = <<>>
  /\ weatherData = NULL
  /\ weatherLastFetch = 0
  /\ now = StartTime
  /\ layerGroup = <<>>
  /\ footprintGroup = <<>>
  /\ visibleInfo = NULL
  /\ handoverInfo = NULL
  /\ handoverLog = ""
  /\ linkArgs = NULL
  /\ linkOut = NULL
  /\ refArgs = NULL
  /\ refOut = NULL
  /\ map = NULL
  /\ metaResponse = "pending"
  /\ dataResponse = "pending"
  /\ logCalls = 0

\* the page as loaded, the build script not run
InitCommon(V) ==
  /\ InitPage(V)
  /\ argv = <<>>
  /\ inputFile = NULL
  /\ inputRead = FALSE
  /\ outFile = NULL
  /\ metaFile = NULL
  /\ exitStatus = NULL

\* a page without the terminalOutput element
InitIn(V) == InitCommon(V) /\ terminal = NULL

\* what drawFrame leaves behind; isDrawing stays true when it threw
SetFrame(f) ==
  /\ layerGroup' = f.layerGroup
  /\ footprintGroup' = f.footprintGroup
  /\ visibleInfo' = IF f.threw THEN visibleInfo ELSE f.visibleInfo
  /\ isDrawing' = f.threw

\* a call of drawFrame(): if (isDrawing) return
Draw(g) ==
  IF g.isDrawing THEN UNCHANGED <<frameVars, isDrawing>>
  ELSE SetFrame(drawFrame(g))

\* setupControls has installed the handlers
ControlsReady == phase \in {"running", "crashed"}

\* init goes on to the map even when the load of DATA_URL failed
InitContinuesAlways(m, d) == TRUE

\* init goes on to the map only when the metadata were loaded as well
InitContinuesWithMeta(m, d) == m = "ok" /\ (d = "ok" \/ variant = "basic")

\* whether init, the two loads having ended as m and d, goes on to the map:
\* the catch of the metadata falls through; the catch of the TLE data returns,
\* except in the basic variant
InitContinues(m, d) == d = "ok" \/ variant = "basic"

\* the basic catch leaving tleList as loaded
TleListOnErrorKept(w) == w.tleList

\* tleList after the catch of the basic variant: tleList = []; satRecs = []
TleListOnError(w) == EmptyList

\* lines init logs up to its early return
FailedInitLogLines == 5

\* lines init logs when it goes on: eight up to the records, one in initMap,
\* those of fetchWeatherData, "Rendering .." and, unless drawFrame threw, the
\* last one
InitLogLines(g, threw) ==
  8 + 1 + WeatherLogLines(g, weatherLastFetch, now) + 1 + (IF threw THEN 0 ELSE 1)

\* init(): the metadata load ends as w.meta and the TLE load as d; init returns
\* on a TLE failure (the basic variant goes on with empty lists), else makes
\* the records, sets up the map and the controls, fetches the weather
\* (terminal, pro, tactical), draws the first frame and starts the interval
InitApp(Worlds) ==
  /\ phase = "boot"
  /\ \E w \in Worlds, d \in {"ok", "error"},
        p \in RandomPrecip(Globals, weatherLastFetch, now) :
       /\ metaResponse' = w.meta
       /\ dataResponse' = d
       /\ IF ~InitContinues(w.meta, d)
          THEN /\ phase' = "failed"
               /\ Logs(FailedInitLogLines)
               /\ UNCHANGED <<tleList, satRecs, satState, weatherVars, frameVars,
                              isDrawing, map>>
          ELSE LET list == IF d = "ok" THEN w.tleList ELSE TleListOnError(w)
                   g0 == [Globals EXCEPT
                            !.tleList = list,
                            !.satRecs = Records(list),
                            !.satState = [i \in DOMAIN list |-> w.satState[i]]]
                   fw == IF variant \in Variants
                         THEN fetchWeatherData(g0, weatherLastFetch, now, p)
                         ELSE [weatherData |-> weatherData,
                               weatherLastFetch |-> weatherLastFetch]
                   g  == [g0 EXCEPT !.weatherData = fw.weatherData]
                   f  == drawFrame(g)
               IN  /\ tleList' = g.tleList
                   /\ satRecs' = g.satRecs
                   /\ satState' = g.satState
                   /\ map' = [center |-> IF variant = "basic" THEN 0 ELSE obs.lat]
                   /\ weatherData' = fw.weatherData
                   /\ weatherLastFetch' = fw.weatherLastFetch
                   /\ SetFrame(f)
                   /\ phase' = IF f.threw THEN "crashed" ELSE "running"
                   /\ Logs(InitLogLines(g0, f.threw))
  /\ UNCHANGED <<variant, obs, config, selectedSatellite, globeVars, form, loop,
                 handoverSimulation, handoverVars, now, handoverInfo, handoverLog,
                 linkVars, buildVars>>

\* the setInterval callback, the satellites having moved to one of Moves:
\*   if (!isDrawing) { drawFrame(); if (handoverSimulation) simulateHandover(); }
\* (enhanced: if (!isDrawing && !isGlobeActive) drawFrame(), so the callback
\* draws nothing while the globe tab is shown); an exception in drawFrame ends
\* the callback
Tick(Moves) ==
  /\ phase = "running"
  /\ ~isDrawing
  /\ \E ns \in Moves :
       LET g  == [Globals EXCEPT !.satState = ns]
           f  == drawFrame(g)
           ho == simulateHandover(g)
       IN  /\ satState' = ns
           /\ IF variant = "enhanced" /\ isGlobeActive
              THEN UNCHANGED <<frameVars, isDrawing>>
              ELSE SetFrame(f)
           /\ IF handoverSimulation /\ ~f.threw
              THEN /\ currentServingSat' = ho.currentServingSat
                   /\ handoverCandidates' = ho.handoverCandidates
                   /\ handoverInfo' = updateHandoverDisplay(g, ho.currentServingSat,
                                                            ho.handoverCandidates)
                   /\ handoverLog' = IF ho.log = "" THEN handoverLog ELSE ho.log
                   /\ Logs(HandoverLogLines(ho.log))
              ELSE UNCHANGED <<handoverVars, handoverInfo, handoverLog, logVars>>
  /\ UNCHANGED <<variant, phase, tleList, satRecs, obs, config, selectedSatellite,
                 globeVars, form, loop, handoverSimulation, weatherVars, now,
                 linkVars, map, loadVars, buildVars>>

\* btnApply.onclick of the terminal, pro and tactical variants, the lat field
\* holding one of P:
\*   obs.elevMin = Number(value) || 25; obs.lat = Number(value) || -27.588;
\* then the log line, map.setView, fetchWeatherData() and drawFrame()
Apply(P) ==
  /\ ControlsReady
  /\ variant \in Variants
  /\ \E v \in ElevMinInputs, la \in P,
        p \in RandomPrecip(Globals, weatherLastFetch, now) :
       LET newObs == [elevMin |-> IF v = 0 THEN DEFAULT_ELEV_MIN ELSE v,
                      lat |-> IF la = 0 THEN DEFAULT_LAT ELSE la]
           fw == fetchWeatherData(Globals, weatherLastFetch, now, p)
           g  == [Globals EXCEPT !.obs = newObs, !.weatherData = fw.weatherData]
       IN  /\ form' = [elevMin |-> v, lat |-> la]
           /\ obs' = newObs
           /\ map' = [center |-> newObs.lat]
           /\ weatherData' = fw.weatherData
           /\ weatherLastFetch' = fw.weatherLastFetch
           /\ Logs(1 + WeatherLogLines(Globals, weatherLastFetch, now))
           /\ Draw(g)
  /\ UNCHANGED <<variant, phase, tleList, satRecs, satState, config,
                 selectedSatellite, globeVars, loop, handoverSimulation,
                 handoverVars, now, handoverInfo, handoverLog, linkVars,
                 loadVars, buildVars>>

\* considerRain checkbox (terminal, tactical): config.considerRain = checked,
\* the log line, then drawFrame()
RainChange ==
  /\ ControlsReady
  /\ variant \in {"terminal", "tactical"}
  /\ LET newConfig == [config EXCEPT !.considerRain = ~config.considerRain]
     IN  /\ config' = newConfig
         /\ Logs(1)
         /\ Draw([Globals EXCEPT !.config = newConfig])
  /\ UNCHANGED <<variant, phase, tleList, satRecs, satState, obs, selectedSatellite,
                 globeVars, form, loop, handoverSimulation, handoverVars,
                 weatherVars, now, handoverInfo, handoverLog, linkVars,
                 map, loadVars, buildVars>>

\* showFootprints checkbox (terminal, tactical)
FootprintChange ==
  /\ ControlsReady
  /\ variant \in {"terminal", "tactical"}
  /\ LET newConfig == [config EXCEPT !.showFootprints = ~config.showFootprints]
     IN  /\ config' = newConfig
         /\ Logs(1)
         /\ Draw([Globals EXCEPT !.config = newConfig])
  /\ UNCHANGED <<variant, phase, tleList, satRecs, satState, obs, selectedSatellite,
                 globeVars, form, loop, handoverSimulation, handoverVars,
                 weatherVars, now, handoverInfo, handoverLog, linkVars,
                 map, loadVars, buildVars>>

\* footprintOnlySelected checkbox (tactical)
FootprintModeChange ==
  /\ ControlsReady
  /\ variant = "tactical"
  /\ LET newConfig == [config EXCEPT
                         !.footprintOnlySelected = ~config.footprintOnlySelected]
     IN  /\ config' = newConfig
         /\ Logs(1)
         /\ Draw([Globals EXCEPT !.config = newConfig])
  /\ UNCHANGED <<variant, phase, tleList, satRecs, satState, obs, selectedSatellite,
                 globeVars, form, loop, handoverSimulation, handoverVars,
                 weatherVars, now, handoverInfo, handoverLog, linkVars,
                 map, loadVars, buildVars>>

\* the handler also dropping the serving satellite and the candidates when the
\* simulation is stopped
ToggleHandoverResets ==
  /\ ControlsReady
  /\ variant \in Variants
  /\ handoverSimulation' = ~handoverSimulation
  /\ handoverLog' = IF handoverSimulation' THEN "HANDOVER started"
                    ELSE "HANDOVER stopped"
  /\ currentServingSat' = IF handoverSimulation THEN NULL ELSE currentServingSat
  /\ handoverCandidates' = IF handoverSimulation THEN <<>> ELSE handoverCandidates
  /\ Logs(1)
  /\ UNCHANGED <<variant, phase, tleList, satRecs, satState, obs, config,
                 selectedSatellite, isDrawing, globeVars, form, loop,
                 weatherVars, now, frameVars, handoverInfo, linkVars,
                 map, loadVars, buildVars>>

\* btnHandover.onclick: handoverSimulation = !handoverSimulation
ToggleHandover ==
  /\ ControlsReady
  /\ variant \in Variants
  /\ handoverSimulation' = ~handoverSimulation
  /\ handoverLog' = IF handoverSimulation' THEN "HANDOVER started"
                    ELSE "HANDOVER stopped"
  /\ Logs(1)
  /\ UNCHANGED <<variant, phase, tleList, satRecs, satState, obs, config,
                 selectedSatellite, isDrawing, globeVars, form, loop, handoverVars,
                 weatherVars, now, frameVars, handoverInfo, linkVars,
                 map, loadVars, buildVars>>

\* a click on a marker of the last frame (tactical): selectedSatellite is set,
\* the selection is logged and the frame is redrawn when only the selected
\* footprint is shown
SelectSatellite ==
  /\ ControlsReady
  /\ variant = "tactical"
  /\ \E k \in 1..Len(layerGroup) :
       LET sel == [noradId |-> tleList[layerGroup[k].index].noradId]
       IN  /\ selectedSatellite' = sel
           /\ Logs(1)
           /\ IF config.showFootprints /\ config.footprintOnlySelected
              THEN Draw([Globals EXCEPT !.selectedSatellite = sel])
              ELSE UNCHANGED <<frameVars, isDrawing>>
  /\ UNCHANGED <<variant, phase, tleList, satRecs, satState, obs, config,
                 globeVars, form, loop, handoverSimulation, handoverVars,
                 weatherVars, now, handoverInfo, handoverLog, linkVars, map,
                 loadVars, buildVars>>

\* switchTab(tabName) of the enhanced variant: the globe tab sets isGlobeActive,
\* makes the scene when there is none and calls animate3D(), which, with
\* isGlobeActive true, asks for an animation frame; any other tab clears
\* isGlobeActive. window.switchTab is set when the script is loaded, so the
\* tabs answer in every phase of init
SwitchTab ==
  /\ variant = "enhanced"
  /\ \E tabName \in {"map", "globe", "rf"} :
       IF tabName = "globe"
       THEN /\ animationFrames < MaxFrames
            /\ isGlobeActive' = TRUE
            /\ scene3d' = IF scene3d = 0 THEN 1 ELSE scene3d
            /\ animationFrames' = animationFrames + 1
       ELSE /\ isGlobeActive' = FALSE
            /\ UNCHANGED <<scene3d, animationFrames>>
  /\ UNCHANGED <<variant, phase, tleList, satRecs, satState, obs, config,
                 selectedSatellite, isDrawing, form, loop, handoverSimulation,
                 handoverVars, weatherVars, now, frameVars, handoverInfo,
                 handoverLog, linkVars, map, loadVars, logVars, buildVars>>

\* the browser runs one pending animate3D callback: it returns when
\* isGlobeActive is false, else it asks for the next frame and renders
AnimationFrame ==
  /\ animationFrames > 0
  /\ animationFrames' = IF isGlobeActive THEN animationFrames
                        ELSE animationFrames - 1
  /\ UNCHANGED <<variant, phase, tleList, satRecs, satState, obs, config,
                 selectedSatellite, isDrawing, isGlobeActive, scene3d, form, loop,
                 handoverSimulation, handoverVars, weatherVars, now, frameVars,
                 handoverInfo, handoverLog, linkVars, map, loadVars, logVars,
                 buildVars>>

\* the step of a sampling loop with Math.floor in place of Math.ceil
StepOfFloor(n, max) == n \div max

\* const step = Math.ceil(tleList.length / max) of a sampling loop
StepOf(n, max) == Ceil(n, max)

\* drawFrame or, in the enhanced variant, createSatellites3D comes to its loop,
\* max being MAX_DRAW or the 500 of createSatellites3D:
\*   const step = Math.ceil(tleList.length / max); for (let i = 0; ..
LoopEnter ==
  /\ phase = "running"
  /\ loop = NULL
  /\ \E max \in {MAX_DRAW} \cup (IF variant = "enhanced" THEN {MAX_SATS_3D} ELSE {}) :
       loop' = [i |-> 0, n |-> Length(tleList),
                step |-> StepOf(Length(tleList), max)]
  /\ UNCHANGED <<variant, phase, tleList, satRecs, satState, obs, config,
                 selectedSatellite, isDrawing, globeVars, form, handoverSimulation,
                 handoverVars, weatherVars, now, frameVars, handoverInfo,
                 handoverLog, linkVars, map, loadVars, logVars, buildVars>>

\* one iteration of the loop: i < tleList.length held, the body ran, i += step
LoopStep ==
  /\ loop # NULL
  /\ loop.i < loop.n
  /\ loop' = [loop EXCEPT !.i = @ + loop.step]
  /\ UNCHANGED <<variant, phase, tleList, satRecs, satState, obs, config,
                 selectedSatellite, isDrawing, globeVars, form, handoverSimulation,
                 handoverVars, weatherVars, now, frameVars, handoverInfo,
                 handoverLog, linkVars, map, loadVars, logVars, buildVars>>

\* the test i < tleList.length fails and the loop is left
LoopExit ==
  /\ loop # NULL
  /\ loop.i >= loop.n
  /\ loop' = NULL
  /\ UNCHANGED <<variant, phase, tleList, satRecs, satState, obs, config,
                 selectedSatellite, isDrawing, globeVars, form, handoverSimulation,
                 handoverVars, weatherVars, now, frameVars, handoverInfo,
                 handoverLog, linkVars, map, loadVars, logVars, buildVars>>

\* the clock advances
TimePasses ==
  /\ now < StartTime + MaxClock * ClockStep
  /\ now' = now + ClockStep
  /\ UNCHANGED <<variant, phase, tleList, satRecs, satState, obs, config,
                 selectedSatellite, isDrawing, globeVars, form, loop, handoverSimulation,
                 handoverVars, weatherVars, frameVars, handoverInfo, handoverLog,
                 linkVars, map, loadVars, logVars, buildVars>>

(* ------------------ direct calls of the link functions ----------------- *)

\* elevations passed in SpecLink
LinkElevs == {0, 40}

\* SNR values (milli-dB) on and next to every threshold of the ladder
SnrProbes ==
  {8000, 8001, 12000, 12001, 15000, 15001, 18000, 18001, 20000, 20001,
   25000, 25001}

\* rainAttenuation values passed in SpecLink: none, the cap of the rain model,
\* and those (negative) that put the SNR at 40 degrees on SnrProbes
RainInputs ==
  {0, 20000} \cup
  {calculateLinkBudget([Globals EXCEPT !.config = InitialConfig], 40, 0).SNR - s
     : s \in SnrProbes}

\* precipitation values passed in SpecLink
PrecipInputs == {0, 1, 2, 3, 9}

\* the call is kept as the earlier call when keep is TRUE
SetCall(args, out, keep) ==
  /\ linkArgs' = args
  /\ linkOut' = out
  /\ refArgs' = IF keep THEN args ELSE refArgs
  /\ refOut' = IF keep THEN out ELSE refOut

OtherVars ==
  <<variant, phase, tleList, satRecs, satState, obs, config, selectedSatellite,
    isDrawing, globeVars, form, loop, handoverSimulation, handoverVars, weatherVars, now,
    frameVars, handoverInfo, handoverLog, map, loadVars, logVars, buildVars>>

\* calculateLinkBudget(el, r) called from outside the handlers
CallLinkBudget ==
  /\ variant \in Variants
  /\ \E el \in LinkElevs, r \in RainInputs, keep \in BOOLEAN :
       SetCall([fn |-> "calculateLinkBudget", elevation |-> el, x |-> r,
                considerRain |-> config.considerRain],
               calculateLinkBudget(Globals, el, r), keep)
  /\ UNCHANGED OtherVars

\* calculateRainAttenuation(el, p) called from outside the handlers
CallRainAttenuation ==
  /\ variant \in Variants
  /\ \E el \in LinkElevs, p \in PrecipInputs, keep \in BOOLEAN :
       SetCall([fn |-> "calculateRainAttenuation", elevation |-> el, x |-> p,
                considerRain |-> config.considerRain],
               [value |-> calculateRainAttenuation(Globals, el, p)], keep)
  /\ UNCHANGED OtherVars

(* --------------- the handover simulation (terminal, pro) --------------- *)

InitHandover == InitIn({"terminal", "pro"})

NextHandover ==
  \/ InitApp(FineWorlds)
  \/ Tick(EnvMove(SatStates))
  \/ Apply(NoPosition)
  \/ RainChange
  \/ ToggleHandover

SpecHandover == InitHandover /\ [][NextHandover]_vars

(* ------------- acquisition in constellations above the cap ------------- *)

InitScan == InitIn({"terminal", "pro"})

NextScan ==
  \/ InitApp(ScanWorlds)
  \/ Tick(PatternMove("scan", 6))
  \/ ToggleHandover

SpecScan == InitScan /\ [][NextScan]_vars

(* --------------------- the link functions, called ---------------------- *)

NextLink ==
  \/ InitApp(EmptyWorlds)
  \/ RainChange
  \/ CallLinkBudget
  \/ CallRainAttenuation

SpecLink == InitIn(Variants) /\ [][NextLink]_vars

(* -------------------- frames of large constellations ------------------- *)

NextSample ==
  \/ InitApp(SampleWorlds)
  \/ Tick(PatternMove("sample", 3))

SpecSample == InitIn(AllVariants) /\ [][NextSample]_vars

(* ------------------ footprints with handover and selection ------------- *)

NextFoot ==
  \/ InitApp(CoarseWorlds)
  \/ Tick(EnvMove(CoarseStates))
  \/ ToggleHandover
  \/ FootprintChange
  \/ FootprintModeChange
  \/ SelectSatellite

SpecFoot == InitIn(Variants) /\ [][NextFoot]_vars

(* --------------------------- the weather cache ------------------------- *)

NextWeather ==
  \/ InitApp(FineWorlds)
  \/ Apply(LatInputs)
  \/ TimePasses

SpecWeather == InitIn(Variants) /\ [][NextWeather]_vars

(* ------------------- the terminal log on the page ---------------------- *)

\* a page of the terminal or tactical variant with an empty terminalOutput
InitLog == InitCommon({"terminal", "tactical"}) /\ terminal = [children |-> <<>>]

NextLog ==
  \/ InitApp(WithMetaError(EmptyWorlds))
  \/ RainChange
  \/ FootprintChange
  \/ ToggleHandover

SpecLog == InitLog /\ [][NextLog]_vars

(* ------------- frames over every outcome of a propagation ------------- *)

InitDraw == InitIn(AllVariants)

NextDraw ==
  \/ InitApp(DrawWorlds)
  \/ Tick(EnvMove(DrawStates))
  \/ Apply(NoPosition)
  \/ ToggleHandover

SpecDraw == InitDraw /\ [][NextDraw]_vars

(* ---------------- init over both loads and every entry ----------------- *)

InitInit == InitIn(AllVariants)

NextInit ==
  \/ InitApp(InitWorlds)
  \/ Tick(EnvMove(InitStates))
  \/ ToggleHandover

SpecInit == InitInit /\ [][NextInit]_vars

(* ----------------------- the tabs of the 3D variant -------------------- *)

NextGlobe ==
  \/ InitApp(InitWorlds)
  \/ Tick(EnvMove(InitStates))
  \/ SwitchTab
  \/ AnimationFrame

SpecGlobe == InitIn({"enhanced"}) /\ [][NextGlobe]_vars

(* -------------------------- the sampling loops ------------------------- *)

NextLoop ==
  \/ InitApp(PatternWorlds("sample", 1, LoopLengths))
  \/ LoopEnter
  \/ LoopStep
  \/ LoopExit

\* a script that runs is not held up: the engine runs the loop on, iteration
\* by iteration, until its test fails
SpecLoop ==
  /\ InitIn({"basic", "terminal", "enhanced"})
  /\ [][NextLoop]_vars
  /\ WF_vars(LoopStep)
  /\ WF_vars(LoopExit)

(* --------------------------- the build script -------------------------- *)

pageVars ==
  <<variant, phase, tleList, satRecs, satState, obs, config, selectedSatellite,
    isDrawing, globeVars, form, loop, handoverSimulation, handoverVars, weatherVars, now,
    frameVars, handoverInfo, handoverLog, linkVars, map, loadVars, logVars>>

\* the script is started with a command line and an input file on disk
InitBuild ==
  /\ InitPage({"build"})
  /\ terminal = NULL
  /\ argv \in ArgLists
  /\ inputFile \in InputFiles
  /\ inputRead = FALSE
  /\ outFile = NULL
  /\ metaFile = NULL
  /\ exitStatus = NULL

\* a path is missing: "Uso: ..." and process.exit(1)
MainUsage ==
  /\ variant = "build"
  /\ exitStatus = NULL
  /\ UsageError
  /\ exitStatus' = Exit(1)
  /\ UNCHANGED <<argv, inputFile, inputRead, outFile, metaFile, pageVars>>

\* build(inPath, outPath, metaPath): the files are written after the list is
\* complete; an exception ends the process with status 1
MainBuild ==
  /\ variant = "build"
  /\ exitStatus = NULL
  /\ ~UsageError
  /\ LET r == build(inputFile)
     IN  /\ inputRead' = TRUE
         /\ IF r.threw
            THEN /\ exitStatus' = Exit(1)
                 /\ UNCHANGED <<outFile, metaFile>>
            ELSE /\ outFile' = [list |-> r.list]
                 /\ metaFile' = r.meta
                 /\ exitStatus' = Exit(0)
  /\ UNCHANGED <<argv, inputFile, pageVars>>

NextBuild ==
  \/ MainUsage
  \/ MainBuild

SpecBuild == InitBuild /\ [][NextBuild]_vars

(* ======================= properties: handover ========================== *)

C2_Hysteresis ==
  [][currentServingSat # NULL =>
       LET i  == currentServingSat.index
           st == IF satRecs[i] THEN satState'[i] ELSE NULL
       IN  (st # NULL /\ st.el >= obs.elevMin - 5) =>
             /\ currentServingSat' = currentServingSat
             /\ handoverCandidates' = handoverCandidates
    ]_vars

\* C2 happens: the simulation has kept a serving satellite that is below
\* obs.elevMin, inside the margin, while another satellite is visible higher up
C2_Witness ==
  /\ handoverSimulation
  /\ currentServingSat # NULL
  /\ obs.elevMin = 25
  /\ satState[currentServingSat.index] = [el |-> 22]
  /\ handoverInfo # NULL
  /\ handoverInfo.serving = [index |-> currentServingSat.index,
                             snr |-> currentServingSat.snr, el |-> 22]
  /\ \E j \in DOMAIN tleList : satRecs[j] /\ satState[j] = [el |-> 40]

\* C3: whenever a handover is executed (the serving satellite is replaced by
\* another one), the new serving satellite is visible (elevation >=
\* obs.elevMin) and has the highest current SNR among the visible satellites
C3_HandoverToBestVisible ==
  [][(/\ currentServingSat # NULL
      /\ currentServingSat' # NULL
      /\ currentServingSat' # currentServingSat) =>
       LET g1  == [Globals EXCEPT !.satState = satState']
           snr(j) == calculateLinkBudget(g1, satState'[j].el,
                                         HandoverRainAtt(g1, satState'[j].el)).SNR
           vis == {i \in DOMAIN tleList :
                     /\ satRecs[i]
                     /\ satState'[i] # NULL
                     /\ satState'[i].el >= obs.elevMin}
           new == currentServingSat'.index
       IN  /\ new \in vis
           /\ \A j \in vis : snr(new) >= snr(j)
    ]_vars

(* ==================== properties: link computations ==================== *)

\* C4: the adaptive modulation of the tactical calculateLinkBudget follows the
\* ladder SNR > 25: 256-APSK/400, > 20: 128-APSK/350, > 18: 64-APSK/300,
\* > 15: 32-APSK/250, > 12: 16-APSK/200, > 8: 8PSK/150, else QPSK/50; of two
\* calls the one with the lower SNR never has the higher data rate; and the
\* margin is SNR - 5
C4_AdaptiveModulationLadder ==
  (variant = "tactical" /\ linkArgs # NULL /\ linkArgs.fn = "calculateLinkBudget") =>
    LET snr  == linkOut.SNR
        pair == <<linkOut.modulation, linkOut.dataRate>>
    IN  /\ snr > 25000 => pair = <<"256-APSK", 400>>
        /\ (20000 < snr /\ snr <= 25000) => pair = <<"128-APSK", 350>>
        /\ (18000 < snr /\ snr <= 20000) => pair = <<"64-APSK", 300>>
        /\ (15000 < snr /\ snr <= 18000) => pair = <<"32-APSK", 250>>
        /\ (12000 < snr /\ snr <= 15000) => pair = <<"16-APSK", 200>>
        /\ (8000 < snr /\ snr <= 12000) => pair = <<"8PSK", 150>>
        /\ snr <= 8000 => pair = <<"QPSK", 50>>
        /\ linkOut.margin = snr - 5000
        /\ (refArgs # NULL /\ refArgs.fn = "calculateLinkBudget") =>
             /\ refOut.SNR <= snr => refOut.dataRate <= linkOut.dataRate
             /\ snr <= refOut.SNR => linkOut.dataRate <= refOut.dataRate

\* C4 happens: a call on a threshold (8 dB, QPSK) is compared with an earlier
\* call just above it (8PSK)
C4_Witness ==
  /\ variant = "tactical"
  /\ linkArgs # NULL /\ linkArgs.fn = "calculateLinkBudget"
  /\ refArgs # NULL /\ refArgs.fn = "calculateLinkBudget"
  /\ linkOut.SNR = 8000 /\ linkOut.modulation = "QPSK"
  /\ refOut.SNR = 8001 /\ refOut.modulation = "8PSK"

\* C5: calculateLinkBudget and calculateRainAttenuation are stateless: a call
\* with the arguments and the config.considerRain of an earlier call returns
\* what the earlier call returned, whatever happened in between, and a call
\* leaves obs, config, weatherData, currentServingSat, handoverCandidates and
\* isDrawing unchanged
C5_LinkFunctionsStateless ==
  /\ []((refArgs # NULL /\ linkArgs = refArgs) => linkOut = refOut)
  /\ [][(<<linkArgs, linkOut, refArgs, refOut>>' # <<linkArgs, linkOut, refArgs, refOut>>)
          => UNCHANGED <<obs, config, weatherData, currentServingSat,
                         handoverCandidates, isDrawing>>]_vars

\* C5 happens: a rain attenuation computed before init is computed again, with
\* the same arguments, once the weather holds another precipitation and the
\* considerRain checkbox has been switched off and on again
C5_Witness ==
  /\ refArgs # NULL
  /\ linkArgs = refArgs
  /\ linkArgs.fn = "calculateRainAttenuation"
  /\ linkArgs.x = 1
  /\ linkOut = [value |-> 7186]
  /\ weatherData = [precipitation |-> 2]

\* C6: in the terminal and tactical variants, with config.considerRain false,
\* calculateLinkBudget(el, r) returns rainAttenuation = 0 and the SNR and
\* rxPower of calculateLinkBudget(el, 0), and calculateRainAttenuation
\* returns 0
C6_RainOnlyWhenConfigured ==
  (/\ variant \in {"terminal", "tactical"}
   /\ linkArgs # NULL
   /\ ~linkArgs.considerRain) =>
    IF linkArgs.fn = "calculateLinkBudget"
    THEN LET dry == calculateLinkBudget(
                      [Globals EXCEPT !.config.considerRain = FALSE],
                      linkArgs.elevation, 0)
         IN  /\ linkOut.rainAttenuation = 0
             /\ linkOut.SNR = dry.SNR
             /\ linkOut.rxPower = dry.rxPower
    ELSE linkOut.value = 0

\* C6 happens: calculateLinkBudget is called with 20 dB of rain while
\* config.considerRain is false
C6_Witness ==
  /\ variant = "terminal"
  /\ linkArgs # NULL
  /\ ~linkArgs.considerRain
  /\ linkArgs.fn = "calculateLinkBudget"
  /\ linkArgs.x = 20000

\* C7 as stated: calculateRainAttenuation returns 0 when precipitation is 0 and
\* a value in (0, 20] dB for every elevation and every precipitation > 0
C7_AsStated ==
  (linkArgs # NULL /\ linkArgs.fn = "calculateRainAttenuation") =>
    /\ linkArgs.x = 0 => linkOut.value = 0
    /\ linkArgs.x > 0 => (0 < linkOut.value /\ linkOut.value <= 20000)

\* C7, amended: calculateRainAttenuation returns 0 when precipitation is 0 or,
\* in the terminal and tactical variants, config.considerRain is false;
\* otherwise it returns a value in (0, 20] dB
C7_RainAttenuationRange ==
  (linkArgs # NULL /\ linkArgs.fn = "calculateRainAttenuation") =>
    IF linkArgs.x = 0
         \/ (variant \in {"terminal", "tactical"} /\ ~linkArgs.considerRain)
    THEN linkOut.value = 0
    ELSE 0 < linkOut.value /\ linkOut.value <= 20000

\* C7 happens: a precipitation whose attenuation exceeds 20 dB is capped
C7_Witness ==
  /\ linkArgs # NULL
  /\ linkArgs.fn = "calculateRainAttenuation"
  /\ linkArgs.considerRain
  /\ linkArgs.x = 3
  /\ linkOut.value = 20000

(* ========================= properties: frames ========================== *)

\* C8: per-frame marker cap. With n = tleList.length and step = ceil(n / MAX),
\* MAX being 800 in the enhanced variant and 1000 in the others, the markers of
\* a frame are at indices below n that are multiples of step, and there are at
\* most MAX of them
C8_MarkerCap ==
  phase = "running" =>
    LET n    == Length(tleList)
        MAX  == IF variant = "enhanced" THEN 800 ELSE 1000
        step == (n + MAX - 1) \div MAX
    IN  /\ Len(layerGroup) <= MAX
        /\ \A k \in 1..Len(layerGroup) :
             /\ layerGroup[k].index < n
             /\ layerGroup[k].index % step = 0

\* C8 happens: the enhanced variant draws 801 satellites with step 2
C8_Witness ==
  /\ variant = "enhanced"
  /\ Length(tleList) = 801
  /\ Len(layerGroup) = 401

\* C9: footprint cap. A frame holds at most config.maxFootprints footprint
\* circles in the terminal and tactical variants and at most 3 in the pro
\* variant
C9_FootprintCap ==
  Len(footprintGroup) <= IF variant = "pro" THEN 3 ELSE config.maxFootprints

(* ========================= properties: weather ========================= *)

\* C10: weather cache of 30 minutes. weatherData and weatherLastFetch change
\* only when weatherData is null or at least 30 * 60 * 1000 ms have passed
\* since weatherLastFetch, and then weatherLastFetch becomes the current time;
\* so two regenerations are at least 30 minutes apart
C10_WeatherCache ==
  [][(weatherData' # weatherData \/ weatherLastFetch' # weatherLastFetch) =>
       /\ weatherData = NULL \/ now - weatherLastFetch >= 30 * 60 * 1000
       /\ weatherLastFetch' = now
       /\ weatherData # NULL =>
            weatherLastFetch' - weatherLastFetch >= 30 * 60 * 1000
    ]_vars

\* C10 happens: the weather was regenerated 30 minutes after the page loaded
C10_Witness ==
  /\ weatherData # NULL
  /\ weatherLastFetch = StartTime + 30 * 60 * 1000

\* C11: Apply fetches new weather. A step in which the Apply handler gives the
\* observer a new position leaves a weatherData generated in that step:
\* weatherLastFetch is the time of the click
C11_ApplyFetchesWeather ==
  [][(ControlsReady /\ obs'.lat # obs.lat) =>
       /\ weatherData' # NULL
       /\ weatherLastFetch' = now
    ]_vars

(* ======================= properties: terminal log ====================== *)

\* C12: bounded terminal log. The terminal holds at most 50 lines (100 in the
\* tactical variant); they are the newest lines in append order: after n calls
\* of updateTerminalLog it holds exactly the lines n - len + 1 .. n, so the
\* newest line is present and the lines removed are the oldest
C12_BoundedTerminalLog ==
  terminal # NULL =>
    LET max == IF variant = "tactical" THEN 100 ELSE 50
        len == Len(terminal.children)
    IN  /\ len <= max
        /\ len = Min(logCalls, max)
        /\ \A j \in 1..len : terminal.children[j] = logCalls - len + j

\* C12 happens: the terminal variant has logged 60 lines and shows the last 50
C12_Witness ==
  /\ variant = "terminal"
  /\ terminal # NULL
  /\ logCalls = 60
  /\ Len(terminal.children) = 50
  /\ terminal.children[1] = 11
  /\ terminal.children[50] = 60

(* ==================== properties: frames and failures ================== *)

\* C13: isDrawing never blocks the refresh. isDrawing is true only while
\* drawFrame is executing: between two handlers, whether the last drawFrame
\* ended normally or with an exception, it is false
C13_IsDrawingReleased == ~isDrawing

\* C20: in the basic variant getSatState returns null or a state whose lat, lon
\* and alt are finite, whatever the propagation yields (no position, an
\* exception, a non-finite coordinate); no marker of a frame stands for a
\* satellite with a non-finite coordinate, and every drawFrame completes
C20_BasicStateFinite ==
  variant = "basic" =>
    /\ \A i \in DOMAIN tleList :
         LET st == getSatState(Globals, i)
         IN  st = NULL \/ (st # THROWS /\ ~NonFinite(st))
    /\ \A k \in 1..Len(layerGroup) : ~NonFinite(satState[layerGroup[k].index])
    /\ ~isDrawing

\* C20 happens: of two satellites above the horizon the one whose latitude is
\* NaN is left out of the frame and the other is drawn
C20_Witness ==
  /\ variant = "basic"
  /\ phase = "running"
  /\ Length(tleList) = 2
  /\ satRecs[0] /\ satState[0] = [el |-> 40, nan |-> "lat"]
  /\ satRecs[1] /\ satState[1] = [el |-> 40]
  /\ Len(layerGroup) = 1
  /\ layerGroup[1].index = 1
  /\ visibleInfo = [visible |-> 1, drawn |-> 1]

\* C14: in the terminal, pro and tactical variants a failed load of the TLE
\* data stops init before the map: from then on there is no map, no interval,
\* no frame (the layer groups and the counters are as at page load) and no
\* handover step (the simulation is never switched on, nothing is served)
C14_InitStopsOnDataFailure ==
  (variant \in {"terminal", "pro", "tactical"} /\ dataResponse = "error") =>
    /\ phase = "failed"
    /\ map = NULL
    /\ visibleInfo = NULL
    /\ layerGroup = <<>>
    /\ footprintGroup = <<>>
    /\ ~isDrawing
    /\ ~handoverSimulation
    /\ currentServingSat = NULL
    /\ handoverCandidates = <<>>
    /\ handoverInfo = NULL

\* C14 happens: the tactical variant loaded the metadata and failed to load
\* the TLE data
C14_Witness ==
  /\ variant = "tactical"
  /\ metaResponse = "ok"
  /\ dataResponse = "error"
  /\ phase = "failed"

C16_BasicGoesOnEmpty ==
  (variant = "basic" /\ dataResponse = "error") =>
    /\ tleList = EmptyList
    /\ satRecs = EmptyList
    /\ map # NULL
    /\ phase = "running"
    /\ layerGroup = <<>>
    /\ footprintGroup = <<>>
    /\ visibleInfo = [visible |-> 0, drawn |-> 0]
    /\ ~isDrawing

\* C16 happens: the basic variant runs after a failed load of the TLE data
C16_Witness ==
  /\ variant = "basic"
  /\ dataResponse = "error"
  /\ phase = "running"
  /\ visibleInfo = [visible |-> 0, drawn |-> 0]

\* C19: invalid orbital elements are tolerated. An entry with line1 or line2
\* missing, or on which the parser throws, has a null record, and no marker,
\* footprint, serving satellite or candidate has an index whose record is null
C19_NullRecordsSkipped ==
  /\ \A i \in DOMAIN tleList :
       (~tleList[i].line1 \/ ~tleList[i].line2 \/ ~tleList[i].parses) => ~satRecs[i]
  /\ \A k \in 1..Len(layerGroup) : satRecs[layerGroup[k].index]
  /\ \A k \in 1..Len(footprintGroup) : satRecs[footprintGroup[k]]
  /\ currentServingSat # NULL => satRecs[currentServingSat.index]
  /\ \A k \in 1..Len(handoverCandidates) : satRecs[handoverCandidates[k].index]

\* C19 happens: the parser threw on the first of two entries; the second one
\* is drawn and serving
C19_Witness ==
  /\ Length(tleList) = 2
  /\ ~tleList[0].parses
  /\ ~satRecs[0]
  /\ Len(layerGroup) = 1
  /\ layerGroup[1].index = 1
  /\ currentServingSat # NULL
  /\ currentServingSat.index = 1

\* C17: when the build script has written its files, every record of the
\* list has a line1 and a line2 that are non-empty and carry no white space at
\* either end, the list has exactly one record per input object whose
\* spaceTrack has both lines with some text (objects without spaceTrack,
\* without a line or with a blank line are left out), and meta.count is the
\* number of records written.
C17_BuildOutputConsistent ==
  /\ (outFile = NULL) = (metaFile = NULL)
  /\ outFile # NULL =>
       LET list == outFile.list
           raw  == inputFile.json
           HasText(v) == /\ v # NULL
                         /\ "str" \in DOMAIN v
                         /\ \E j \in 1..Len(v.str) : v.str[j] # " "
           Usable(o) == /\ o # NULL
                        /\ o.spaceTrack # NULL
                        /\ HasText(o.spaceTrack.TLE_LINE1)
                        /\ HasText(o.spaceTrack.TLE_LINE2)
           Trimmed(s) == s # <<>> /\ s[1] # " " /\ s[Len(s)] # " "
       IN  /\ \A k \in 1..Len(list) :
                Trimmed(list[k].line1.str) /\ Trimmed(list[k].line2.str)
           /\ Len(list) = Cardinality({k \in 1..Len(raw) : Usable(raw[k])})
           /\ metaFile.count = Len(list)

\* an input of three objects, one without spaceTrack, one with a blank
\* line2 and one with padded lines, was built into a list of one record
C17_Witness ==
  /\ exitStatus = Exit(0)
  /\ outFile # NULL
  /\ inputFile =
       [json |-> << [spaceTrack |-> NULL],
                    SpaceTrack(Str(<<" ", "1">>), Str(<<" ", " ">>), Num(5), Str(<<"B">>)),
                    SpaceTrack(Str(<<" ", "1", " ">>), Str(<<"2", " ">>), Num(7),
                               Str(<<"C">>)) >>]
  /\ outFile.list = << [name |-> Str(<<"C">>), noradId |-> Num(7),
                        line1 |-> Str(<<"1">>), line2 |-> Str(<<"2">>)] >>
  /\ metaFile.count = 1

\* C18: the list written by the build script is in ascending order of
\* noradId, a noradId that is NaN (NORAD_CAT_ID missing or not a numeral)
\* counting as 0; and a run with fewer than three path arguments has ended
\* with status 1 without having read the input or written a file.
C18_SortedAndUsageExit ==
  /\ outFile # NULL =>
       LET list == outFile.list
           Key(r) == IF r.noradId = NaN THEN 0 ELSE r.noradId.num
       IN  \A j, k \in 1..Len(list) : j < k => Key(list[j]) <= Key(list[k])
  /\ (Len(argv) < 3 /\ exitStatus # NULL) =>
       /\ exitStatus = Exit(1)
       /\ ~inputRead
       /\ outFile = NULL
       /\ metaFile = NULL

\* an input in the order 12, missing id, 2 was written in the order
\* missing id, 2, 12
C18_Witness ==
  /\ exitStatus = Exit(0)
  /\ outFile # NULL
  /\ inputFile =
       [json |-> << SpaceTrack(Str(<<"1">>), Str(<<"2">>), Str(<<"1", "2">>), NULL),
                    SpaceTrack(Str(<<"1">>), Str(<<"2">>), NULL, NULL),
                    SpaceTrack(Str(<<"1">>), Str(<<"2">>), Num(2), Str(<<>>)) >>]
  /\ Len(outFile.list) = 3
  /\ outFile.list[1].noradId = NaN
  /\ outFile.list[2].noradId = Num(2)
  /\ outFile.list[3].noradId = Num(12)

(* ========================= properties: frames ========================== *)

\* C21: in the terminal, pro and tactical variants the visible count shown
\* after a drawFrame is the number of markers of that frame whose satellite has
\* an elevation >= obs.elevMin, a visible serving satellite and visible
\* candidates included.
C21_VisibleCountsEveryVisible ==
  (variant \in Variants /\ visibleInfo # NULL /\ ~isDrawing) =>
    visibleInfo.visible =
      Cardinality({k \in 1..Len(layerGroup) : layerGroup[k].el >= obs.elevMin})

\* C22: in the enhanced variant the number shown as "Visiveis" after a
\* drawFrame is the number of markers of that frame whose satellite has an
\* elevation >= obs.elevMin, however many they are.
C22_EnhancedCountsEveryVisible ==
  (variant = "enhanced" /\ visibleInfo # NULL /\ ~isDrawing) =>
    visibleInfo.visible =
      Cardinality({k \in 1..Len(layerGroup) : layerGroup[k].el >= obs.elevMin})

\* C23: every marker of a frame of the terminal, pro and tactical variants
\* has the one class its satellite has in the order serving, selected
\* (tactical only), candidate, visible, not visible (inactive in the tactical
\* variant), serving, candidates, selection and obs being those the frame was
\* drawn with; so a marker with the class visible has an elevation
\* >= obs.elevMin, and at most one marker of the frame has the class serving.
C23_MarkerClassPriority ==
  [][(variant \in Variants /\ layerGroup' # layerGroup) =>
       /\ \A k \in 1..Len(layerGroup') :
            LET m    == layerGroup'[k]
                serv == currentServingSat # NULL /\ currentServingSat.index = m.index
                cand == \E j \in 1..Len(handoverCandidates) :
                          handoverCandidates[j].index = m.index
                sel  == /\ selectedSatellite' # NULL
                        /\ selectedSatellite'.noradId = tleList'[m.index].noradId
            IN  m.cls = IF serv THEN "serving"
                        ELSE IF variant = "tactical" /\ sel THEN "selected"
                        ELSE IF cand THEN "candidate"
                        ELSE IF m.el >= obs'.elevMin THEN "visible"
                        ELSE IF variant = "tactical" THEN "inactive"
                        ELSE "notVisible"
       /\ Cardinality({k \in 1..Len(layerGroup') :
                         layerGroup'[k].cls = "serving"}) <= 1
       /\ \A j, k \in 1..Len(layerGroup') :
            j # k => layerGroup'[j].index # layerGroup'[k].index]_vars

\* a frame of the terminal or pro variant with a serving marker, a candidate
\* marker, a visible one and one that is not visible, the serving satellite
\* and the candidate being visible as well
C23_Witness ==
  /\ variant \in {"terminal", "pro"}
  /\ Len(layerGroup) = 4
  /\ {layerGroup[k].cls : k \in 1..4} = {"serving", "candidate", "visible", "notVisible"}
  /\ \A k \in 1..4 : layerGroup[k].cls # "notVisible" => layerGroup[k].el >= obs.elevMin

(* ===================== properties: handover state ====================== *)

\* C24: handoverCandidates has at most 3 entries, their satellite indices are
\* pairwise distinct, their recorded SNR values are in non-increasing order,
\* and the index of currentServingSat, when there is one, is not among them.
C24_HandoverStateInvariant ==
  /\ Len(handoverCandidates) <= 3
  /\ \A j, k \in 1..Len(handoverCandidates) :
       j < k => /\ handoverCandidates[j].index # handoverCandidates[k].index
                /\ handoverCandidates[j].snr >= handoverCandidates[k].snr
  /\ currentServingSat # NULL =>
       \A k \in 1..Len(handoverCandidates) :
         handoverCandidates[k].index # currentServingSat.index

\* five satellites were visible at the acquisition: the serving one and three
\* candidates, of which the last has a lower SNR than the first two
C24_Witness ==
  /\ currentServingSat # NULL
  /\ currentServingSat.index = 1
  /\ Len(handoverCandidates) = 3
  /\ handoverCandidates[1].index = 3
  /\ handoverCandidates[2].index = 4
  /\ handoverCandidates[3].index = 0
  /\ handoverCandidates[2].snr > handoverCandidates[3].snr
  /\ satRecs[2] /\ satState[2] = [el |-> 27]

\* C25: handoverCandidates changes only at an acquisition (currentServingSat
\* was null and is set) or at a handover, where its first entry becomes the
\* serving satellite and the list loses exactly that entry; the serving
\* satellite is replaced only by such a handover; currentServingSat becomes
\* null only when the serving satellite has degraded and no candidate is left,
\* and in a tick of the running simulation it does so whenever that is the
\* case; and with currentServingSat null, a tick of the running simulation at
\* which a satellite is visible acquires a serving satellite.
C25_ExhaustionAndReacquisition ==
  [][LET i0       == currentServingSat.index
         st       == IF satRecs[i0] THEN satState'[i0] ELSE NULL
         degraded == st = NULL \/ st.el < obs.elevMin - 5
         simTick  == handoverSimulation /\ satState' # satState
         vis      == {i \in DOMAIN tleList :
                        /\ satRecs[i]
                        /\ satState'[i] # NULL
                        /\ satState'[i].el >= obs.elevMin}
         handover == /\ currentServingSat # NULL
                     /\ Len(handoverCandidates) > 0
                     /\ currentServingSat' = handoverCandidates[1]
                     /\ handoverCandidates' = Tail(handoverCandidates)
                     /\ Len(handoverCandidates') = Len(handoverCandidates) - 1
     IN  /\ handoverCandidates' # handoverCandidates =>
              \/ currentServingSat = NULL /\ currentServingSat' # NULL
              \/ handover
         /\ (/\ currentServingSat # NULL
             /\ currentServingSat' # NULL
             /\ currentServingSat' # currentServingSat) => handover
         /\ (currentServingSat # NULL /\ currentServingSat' = NULL) =>
              degraded /\ handoverCandidates = <<>> /\ handoverCandidates' = <<>>
         /\ (simTick /\ currentServingSat # NULL) =>
              (degraded /\ handoverCandidates = <<>> => currentServingSat' = NULL)
         /\ (simTick /\ currentServingSat = NULL /\ vis # {}) =>
              currentServingSat' # NULL
    ]_vars

\* in a constellation of more than 1000 satellites the serving satellite has
\* degraded with no candidate left: the connection is lost, the panel shows no
\* serving satellite, and the satellites stand so that none is visible
C25_Witness ==
  /\ Length(tleList) > 1000
  /\ handoverSimulation
  /\ handoverLog \in {"HANDOVER lost", "HANDOVER needed"}
  /\ currentServingSat = NULL
  /\ handoverCandidates = <<>>
  /\ handoverInfo # NULL
  /\ \A i \in 0..4 : satState[i] = [el |-> 18]

\* C26: currentServingSat and handoverCandidates change only in a step that
\* starts and ends with the simulation switched on; a step that switches
\* handoverSimulation changes nothing else but the newest HANDOVER line and the
\* log; and a frame drawn while the simulation is off gives the marker of the
\* serving satellite the class serving and the markers of the candidates the
\* class candidate.
C26_StoppedSimulationKeepsState ==
  [][/\ (~handoverSimulation \/ ~handoverSimulation') =>
          /\ currentServingSat' = currentServingSat
          /\ handoverCandidates' = handoverCandidates
     /\ handoverSimulation' # handoverSimulation =>
          UNCHANGED <<variant, phase, tleList, satRecs, satState, obs, config,
                      selectedSatellite, isDrawing, globeVars, form, loop,
                      handoverVars, weatherVars, now, frameVars, handoverInfo,
                      linkVars, map, loadVars, buildVars>>
     /\ (~handoverSimulation /\ layerGroup' # layerGroup) =>
          \A k \in 1..Len(layerGroup') :
            LET m == layerGroup'[k]
            IN  /\ (currentServingSat # NULL /\ currentServingSat.index = m.index)
                     => m.cls = "serving"
                /\ (\E j \in 1..Len(handoverCandidates) :
                       handoverCandidates[j].index = m.index) => m.cls = "candidate"
    ]_vars

\* the simulation was stopped with a serving satellite and a candidate; the
\* serving satellite has since sunk below obs.elevMin - 5 and the last frame
\* still shows it as serving and the candidate as candidate
C26_Witness ==
  /\ ~handoverSimulation
  /\ handoverLog = "HANDOVER stopped"
  /\ currentServingSat # NULL
  /\ Len(handoverCandidates) >= 1
  /\ satState[currentServingSat.index] = [el |-> 18]
  /\ \E k \in 1..Len(layerGroup) :
       /\ layerGroup[k].index = currentServingSat.index
       /\ layerGroup[k].cls = "serving"
       /\ layerGroup[k].el = 18
  /\ \E k \in 1..Len(layerGroup) :
       /\ layerGroup[k].index = handoverCandidates[1].index
       /\ layerGroup[k].cls = "candidate"

(* ======================== properties: 3D globe ========================= *)

\* C27: in the enhanced variant the scene of the globe is made at most once,
\* at most one animate3D callback is pending at any time, and a tick with the
\* globe tab shown leaves the 2D map as it was.
C27_OneSceneOneLoop ==
  [][/\ scene3d' <= 1
     /\ animationFrames' <= 1
     /\ (isGlobeActive /\ satState' # satState) => UNCHANGED frameVars
    ]_vars

(* ======================= properties: the form ========================= *)

\* C28: after the Apply handler has run, obs.elevMin and obs.lat are the
\* numbers entered in the form, the number 0 included.
C28_ApplyKeepsEnteredValues ==
  form # NULL => (obs.elevMin = form.elevMin /\ obs.lat = form.lat)

(* ===================== properties: index alignment ===================== *)

\* C29: satRecs is as long as tleList and satRecs[i] is the record, or null,
\* made from tleList[i]; the index held by currentServingSat and by every
\* handover candidate is an index of both arrays.
C29_IndexAlignment ==
  /\ DOMAIN satRecs = DOMAIN tleList
  /\ DOMAIN tleList = 0..(Length(tleList) - 1)
  /\ \A i \in DOMAIN tleList : satRecs[i] = makeRec(tleList[i])
  /\ currentServingSat # NULL =>
       /\ currentServingSat.index \in DOMAIN tleList
       /\ currentServingSat.index \in DOMAIN satRecs
  /\ \A k \in 1..Len(handoverCandidates) :
       /\ handoverCandidates[k].index \in DOMAIN tleList
       /\ handoverCandidates[k].index \in DOMAIN satRecs

\* a long list with null records in it, a serving satellite and three
\* candidates
C29_Witness ==
  /\ phase = "running"
  /\ Length(tleList) = MaxScanTle
  /\ \E i, j \in DOMAIN tleList : i < j /\ ~satRecs[i] /\ satRecs[j]
  /\ currentServingSat # NULL
  /\ Len(handoverCandidates) = 3

(* ======================= properties: termination ====================== *)

\* C30: every sampling loop for (i = 0; i < n; i += step), step being
\* ceil(n / MAX), comes to its end, for every length n of tleList, n = 0 (step
\* 0) and n = 1 included.
C30_SamplingLoopTerminates == (loop # NULL) ~> (loop = NULL)

\* the loop over an empty list, step 0, has been entered; so has, in another
\* state, a loop that passes over entries
C30_Witness ==
  /\ loop # NULL
  /\ loop.n = 0
  /\ loop.step = 0
  /\ loop.i = 0

====
